---- MODULE Spec2Model ----
(***************************************************************************)
(* A model of helium-rs' tool-calling core:                                *)
(*   - the tool-call notation parser (detectToolCall, extractToolCalls,    *)
(*     removeToolCallTags, formatToolResult), in its current form          *)
(*     (src/src/components/ModeSelector.tsx:100-272) and in its legacy     *)
(*     form (src/unnamed/part_000:1-73);                                   *)
(*   - MCPService.executeTool (src/unnamed/part_000:205-260);              *)
(*   - runInferenceWithTools, current (src/src/lib/ai/mcp-manager.ts:      *)
(*     243-438) and legacy (src/src/lib/ai/inference-with-tools.ts).       *)
(*                                                                         *)
(* TEXT.  A text is a sequence of tokens; every token is the literal       *)
(* string it stands for, and the text it models is the concatenation of    *)
(* its tokens.  No text has two token sequences (the only token that is   *)
(* a prefix of others is the closing quote, and no token continues it to   *)
(* one of them), no token but "{" and "}" holds a brace, no token but " "  *)
(* holds white space, and the markers <tool_call> and </tool_call> are     *)
(* split in two tokens each, so that every match of the source's regular   *)
(* expressions starts and ends on a token boundary.  A JavaScript value    *)
(* obtained by JSON.parse is represented by its JSON text without the      *)
(* white space between its tokens (a token sequence); undefined is the     *)
(* empty sequence.                                                         *)
(***************************************************************************)
EXTENDS Integers, Sequences, FiniteSets, TLC

(***************************************************************************)
(* Bounds of the model.                                                    *)
(***************************************************************************)
MaxPieces == 3
MaxClock == 2
MaxFailures == 1
MaxParts == 2
MaxElapsed == 1
MaxChunks == 1
MaxPathPieces == 4
MaxCalls == 3

(***************************************************************************)
(* The token alphabet.                                                     *)
(***************************************************************************)
TokOpenA  == "<tool_"
TokCloseA == "</tool_"
TokTail   == "call>"
TokWs     == " "
TokProse  == "a"
TokLB     == "{"
TokRB     == "}"
TokId1    == "\"id\":\"c1\","
TokId2    == "\"id\":\"c2\","
TokIdE    == "\"id\":\"\","
TokIdEcho == "\"id\":\"call_2_0\","
TokNameLs == "\"name\":\"ls\","
TokNameRm == "\"name\":\"rm\","
TokArgs   == "\"arguments\":"
TokKeyO   == "\"o\":"
TokKV     == "\"path\":\"/tmp\""
TokStr    == "\"s\""
TokArr    == "[1]"
TokZero   == "0"
\* "c":" opens a member whose value is a string, and " closes the string
TokStrOpen == "\"c\":\""
TokQ      == "\""

\* key:value, tokens (a member followed by its comma)
MemberCommaTokens == {TokId1, TokId2, TokIdE, TokIdEcho, TokNameLs, TokNameRm}
\* key:value tokens (a member with no comma after it)
MemberTokens == {TokKV}
\* key: tokens (a value must follow)
KeyTokens == {TokArgs, TokKeyO}
\* scalar and array values
ScalarTokens == {TokStr, TokArr, TokZero}
\* tokens with no quote in them: what may stand inside a string
QuoteFreeTokens == {TokOpenA, TokCloseA, TokTail, TokWs, TokProse, TokLB, TokRB,
                    TokArr, TokZero}

KeyOf(t) ==
    CASE t \in {TokId1, TokId2, TokIdE, TokIdEcho} -> "id"
      [] t \in {TokNameLs, TokNameRm}   -> "name"
      [] t = TokArgs                    -> "arguments"
      [] t = TokKeyO                    -> "o"
      [] OTHER                          -> "path"

ValOf(t) ==
    CASE t = TokId1    -> "\"c1\""
      [] t = TokId2    -> "\"c2\""
      [] t = TokIdE    -> "\"\""
      [] t = TokIdEcho -> "\"call_2_0\""
      [] t = TokNameLs -> "\"ls\""
      [] t = TokNameRm -> "\"rm\""
      [] OTHER         -> "\"/tmp\""

IsWs(t) == t = TokWs
IsBrace(t) == t \in {TokLB, TokRB}

\* JavaScript's view of a parsed value (represented by its JSON text)
Undefined == <<>>
Truthy(v) == v # Undefined /\ v # <<"\"\"">> /\ v # <<TokZero>>
TypeOf(v) ==
    IF v = Undefined THEN "undefined"
    ELSE IF Head(v) \in {TokLB, TokArr} THEN "object"
    ELSE IF Head(v) = TokZero THEN "number"
    ELSE "string"

Min(S) == CHOOSE x \in S : \A y \in S : x <= y
Max(S) == CHOOSE x \in S : \A y \in S : x >= y

(***************************************************************************)
(* String primitives on token sequences.                                   *)
(***************************************************************************)
Slice(s, a, b) == IF a > b THEN <<>> ELSE SubSeq(s, a, b)

RECURSIVE SkipWs(_, _)
SkipWs(toks, i) ==
    IF i <= Len(toks) /\ IsWs(toks[i]) THEN SkipWs(toks, i + 1) ELSE i

RECURSIVE SkipWsBack(_, _)
SkipWsBack(toks, i) ==
    IF i >= 1 /\ IsWs(toks[i]) THEN SkipWsBack(toks, i - 1) ELSE i

\* String.prototype.trim
Trim(toks) == Slice(toks, SkipWs(toks, 1), SkipWsBack(toks, Len(toks)))

\* the text of a parsed value with the whitespace between its tokens left
\* out; whitespace inside a string stays
RECURSIVE NoWsFrom(_, _, _)
NoWsFrom(toks, i, inString) ==
    IF i > Len(toks) THEN <<>>
    ELSE IF inString
         THEN <<toks[i]>> \o NoWsFrom(toks, i + 1, toks[i] # TokQ)
    ELSE IF IsWs(toks[i]) THEN NoWsFrom(toks, i + 1, FALSE)
    ELSE <<toks[i]>> \o NoWsFrom(toks, i + 1, toks[i] = TokStrOpen)
NoWs(toks) == NoWsFrom(toks, 1, FALSE)

\* the position of the quote that closes the string opened before i, or 0
\* when a token that is no string content comes first
RECURSIVE StringEnd(_, _)
StringEnd(toks, i) ==
    IF i > Len(toks) THEN 0
    ELSE IF toks[i] = TokQ THEN i
    ELSE IF toks[i] \in QuoteFreeTokens THEN StringEnd(toks, i + 1)
    ELSE 0

IsOpenAt(toks, i) ==
    i + 1 <= Len(toks) /\ toks[i] = TokOpenA /\ toks[i + 1] = TokTail
IsCloseAt(toks, i) ==
    i + 1 <= Len(toks) /\ toks[i] = TokCloseA /\ toks[i + 1] = TokTail

\* content.includes('<tool_call>'), content.includes('</tool_call>')
IncludesOpen(toks) == \E i \in 1..Len(toks) : IsOpenAt(toks, i)
IncludesClose(toks) == \E i \in 1..Len(toks) : IsCloseAt(toks, i)

FirstOpen(toks, from) ==
    LET S == {k \in from..Len(toks) : IsOpenAt(toks, k)}
    IN IF S = {} THEN 0 ELSE Min(S)
FirstClose(toks, from) ==
    LET S == {k \in from..Len(toks) : IsCloseAt(toks, k)}
    IN IF S = {} THEN 0 ELSE Min(S)

(***************************************************************************)
(* JSON.parse.  ParseValue reads one value at position i; for an object    *)
(* it collects the members id, name and arguments of that object (a later  *)
(* duplicate key wins).  next is the position after the value.             *)
(***************************************************************************)
NoFields == [id |-> Undefined, name |-> Undefined, arguments |-> Undefined]
ParseFail == [ok |-> FALSE, next |-> 0, f |-> NoFields]

SetField(f, k, v) ==
    IF k \in {"id", "name", "arguments"} THEN [f EXCEPT ![k] = v] ELSE f

RECURSIVE ParseValue(_, _), ParseMembers(_, _, _, _)
ParseValue(toks, i) ==
    LET j == SkipWs(toks, i)
    IN IF j > Len(toks) THEN ParseFail
       ELSE IF toks[j] \in ScalarTokens
            THEN [ok |-> TRUE, next |-> j + 1, f |-> NoFields]
       ELSE IF toks[j] = TokLB THEN ParseMembers(toks, j + 1, "open", NoFields)
       ELSE ParseFail

\* st = "open" after "{", "comma" after a comma, "member" after a member
ParseMembers(toks, i, st, f) ==
    LET j == SkipWs(toks, i)
    IN IF j > Len(toks) THEN ParseFail
       ELSE LET t == toks[j]
            IN IF t = TokRB
                 THEN IF st \in {"open", "member"}
                      THEN [ok |-> TRUE, next |-> j + 1, f |-> f]
                      ELSE ParseFail
               ELSE IF st = "member" THEN ParseFail
               ELSE IF t \in MemberCommaTokens
                 THEN ParseMembers(toks, j + 1, "comma",
                                   SetField(f, KeyOf(t), <<ValOf(t)>>))
               ELSE IF t \in MemberTokens
                 THEN ParseMembers(toks, j + 1, "member",
                                   SetField(f, KeyOf(t), <<ValOf(t)>>))
               ELSE IF t = TokStrOpen
                 THEN LET e == StringEnd(toks, j + 1)
                      IN IF e = 0 THEN ParseFail
                         ELSE ParseMembers(toks, e + 1, "member", f)
               ELSE IF t \in KeyTokens
                 THEN LET v == ParseValue(toks, j + 1)
                      IN IF ~v.ok THEN ParseFail
                         ELSE ParseMembers(toks, v.next, "member",
                                 SetField(f, KeyOf(t),
                                    NoWs(Slice(toks, j + 1, v.next - 1))))
               ELSE ParseFail

\* JSON.parse(text): ok = FALSE when it throws; f = the members read from the
\* parsed value (all undefined for a value that is no object)
JSONparse(toks) ==
    LET r == ParseValue(toks, 1)
    IN IF r.ok /\ SkipWs(toks, r.next) > Len(toks)
       THEN [ok |-> TRUE, f |-> r.f]
       ELSE [ok |-> FALSE, f |-> NoFields]

(***************************************************************************)
(* The regular expressions of the parser.                                  *)
(***************************************************************************)
\* /<tool_call>([\s\S]*?)<\/tool_call>/g : the matches at or after `from`,
\* left to right; s = position of the opening marker, c = position of the
\* first closing marker after it (both markers are two tokens long)
RECURSIVE xmlRegex(_, _)
xmlRegex(content, from) ==
    LET o == FirstOpen(content, from)
    IN IF o = 0 THEN <<>>
       ELSE LET c == FirstClose(content, o + 2)
            IN IF c = 0 THEN <<>>
               ELSE <<[s |-> o, c |-> c]>> \o xmlRegex(content, c + 2)

\* match[1] of a match of xmlRegex
Inner(content, m) == Slice(content, m.s + 2, m.c - 1)

\* jsonContent.match(/\{[\s\S]*\}/): from the first "{" to the last "}" after
\* it; the text itself when there is no match
JsonMatch(jsonContent) ==
    LET L == {i \in 1..Len(jsonContent) : jsonContent[i] = TokLB}
    IN IF L = {} THEN jsonContent
       ELSE LET a == Min(L)
                R == {i \in a..Len(jsonContent) : jsonContent[i] = TokRB}
            IN IF R = {} THEN jsonContent
               ELSE Slice(jsonContent, a, Max(R))

RECURSIVE SkipNonBrace(_, _)
SkipNonBrace(toks, i) ==
    IF i <= Len(toks) /\ ~IsBrace(toks[i]) THEN SkipNonBrace(toks, i + 1) ELSE i

\* (?:\{[^{}]*\}[^{}]*)*\} at position i, which holds a brace or is the end:
\* the position after the match, 0 when there is none
RECURSIVE MatchGroups(_, _)
MatchGroups(toks, i) ==
    IF i > Len(toks) THEN 0
    ELSE IF toks[i] = TokRB THEN i + 1
    ELSE LET j == SkipNonBrace(toks, i + 1)
         IN IF j <= Len(toks) /\ toks[j] = TokRB
            THEN MatchGroups(toks, SkipNonBrace(toks, j + 1))
            ELSE 0

\* /\{[^{}]*(?:\{[^{}]*\}[^{}]*)*\}/ anchored at i
MatchObjAt(toks, i) ==
    IF i <= Len(toks) /\ toks[i] = TokLB
    THEN MatchGroups(toks, SkipNonBrace(toks, i + 1))
    ELSE 0

\* the position after the "}" that closes the object opened before i, at
\* any depth of nesting; 0 when it is not closed
RECURSIVE BalancedEnd(_, _, _)
BalancedEnd(content, i, depth) ==
    IF i > Len(content) THEN 0
    ELSE IF content[i] = TokLB THEN BalancedEnd(content, i + 1, depth + 1)
    ELSE IF content[i] = TokRB
         THEN IF depth = 1 THEN i + 1
              ELSE BalancedEnd(content, i + 1, depth - 1)
    ELSE BalancedEnd(content, i + 1, depth)

\* a scan that matches balanced objects of any depth
RECURSIVE jsonObjectRegexBalanced(_, _)
jsonObjectRegexBalanced(content, from) ==
    LET S == {k \in from..Len(content) :
                content[k] = TokLB /\ BalancedEnd(content, k + 1, 1) # 0}
    IN IF S = {} THEN <<>>
       ELSE LET k == Min(S)
                e == BalancedEnd(content, k + 1, 1)
            IN <<[s |-> k, e |-> e]>> \o jsonObjectRegexBalanced(content, e)

\* content.match(jsonObjectRegex) with the g flag: the matched substrings,
\* left to right and not overlapping (the empty sequence for null)
RECURSIVE jsonObjectRegex(_, _)
jsonObjectRegex(content, from) ==
    LET S == {k \in from..Len(content) : MatchObjAt(content, k) # 0}
    IN IF S = {} THEN <<>>
       ELSE LET k == Min(S)
                e == MatchObjAt(content, k)
            IN <<[s |-> k, e |-> e]>> \o jsonObjectRegex(content, e)

\* tokens that /"id"\s*:\s*"[^"]+"\s*,/ and /"name"\s*:\s*"[^"]+"\s*,/ match
IdPatternTokens == {TokId1, TokId2, TokIdEcho}
NamePatternTokens == {TokNameLs, TokNameRm}

\* rawJsonPattern anchored at i:
\* /\{\s*"id"\s*:\s*"[^"]+"\s*,\s*"name"\s*:\s*"[^"]+"\s*,\s*"arguments"\s*:\s*\{/
RawPatternAt(toks, i) ==
    /\ toks[i] = TokLB
    /\ LET a == SkipWs(toks, i + 1)
       IN /\ a <= Len(toks) /\ toks[a] \in IdPatternTokens
          /\ LET b == SkipWs(toks, a + 1)
             IN /\ b <= Len(toks) /\ toks[b] \in NamePatternTokens
                /\ LET c == SkipWs(toks, b + 1)
                   IN /\ c <= Len(toks) /\ toks[c] = TokArgs
                      /\ LET d == SkipWs(toks, c + 1)
                         IN d <= Len(toks) /\ toks[d] = TokLB

rawJsonPattern(content) == \E i \in 1..Len(content) : RawPatternAt(content, i)

(***************************************************************************)
(* The parser, current version (src/src/components/ModeSelector.tsx).      *)
(***************************************************************************)
detectToolCall(content) ==
    LET hasXmlToolCall == IncludesOpen(content) /\ IncludesClose(content)
    IN IF hasXmlToolCall THEN TRUE ELSE rawJsonPattern(content)

\* `call_${Date.now()}_${toolCalls.length}`: a string, represented like the
\* strings JSON.parse returns, by its JSON text
SynthId(now, n) == <<"\"call_" \o ToString(now) \o "_" \o ToString(n) \o "\"">>

\* the body of the while loop over the matches of xmlRegex; Date.now() is
\* read in the iteration of a match, nows[k] is what it returns in the
\* iteration of the k-th match
RECURSIVE ExtractXml(_, _, _, _, _)
ExtractXml(content, ms, k, toolCalls, nows) ==
    IF k > Len(ms) THEN toolCalls
    ELSE LET jsonContent == JsonMatch(Trim(Inner(content, ms[k])))
             parsed == JSONparse(jsonContent)
             accepted == /\ parsed.ok
                         /\ Truthy(parsed.f.name)
                         /\ Truthy(parsed.f.arguments)
             rec == [id |-> IF Truthy(parsed.f.id) THEN parsed.f.id
                            ELSE SynthId(nows[k], Len(toolCalls)),
                     name |-> parsed.f.name,
                     arguments |-> parsed.f.arguments]
         IN ExtractXml(content, ms, k + 1,
                       IF accepted THEN Append(toolCalls, rec) ELSE toolCalls,
                       nows)

\* the test both the fallback phase and removeToolCallTags apply to a match
IsRawToolCall(potentialJson) ==
    LET parsed == JSONparse(potentialJson)
    IN /\ parsed.ok
       /\ Truthy(parsed.f.id) /\ Truthy(parsed.f.name)
       /\ Truthy(parsed.f.arguments)
       /\ TypeOf(parsed.f.id) = "string"
       /\ TypeOf(parsed.f.name) = "string"
       /\ TypeOf(parsed.f.arguments) = "object"

RECURSIVE ExtractRaw(_, _, _, _)
ExtractRaw(content, ms, k, toolCalls) ==
    IF k > Len(ms) THEN toolCalls
    ELSE LET potentialJson == Slice(content, ms[k].s, ms[k].e - 1)
             parsed == JSONparse(potentialJson)
             rec == [id |-> parsed.f.id, name |-> parsed.f.name,
                     arguments |-> parsed.f.arguments]
         IN ExtractRaw(content, ms, k + 1,
                       IF IsRawToolCall(potentialJson)
                       THEN Append(toolCalls, rec) ELSE toolCalls)

\* the records are collected in a Map keyed by id and the values of the Map
\* are returned: a record whose id is taken replaces the record that holds
\* the id, at that record's place
RECURSIVE KeyedById(_, _)
KeyedById(recs, kept) ==
    IF recs = <<>> THEN kept
    ELSE LET rec == Head(recs)
             taken == {j \in 1..Len(kept) : kept[j].id = rec.id}
         IN KeyedById(Tail(recs),
                      IF taken = {} THEN Append(kept, rec)
                      ELSE [kept EXCEPT ![Min(taken)] = rec])

extractToolCallsById(content, nows) ==
    LET xml == ExtractXml(content, xmlRegex(content, 1), 1, <<>>, nows)
    IN KeyedById(IF Len(xml) = 0
                 THEN ExtractRaw(content, jsonObjectRegex(content, 1), 1, <<>>)
                 ELSE xml,
                 <<>>)

\* the fallback phase is run whatever the wrapped phase found
extractToolCallsBothPhases(content, nows) ==
    ExtractXml(content, xmlRegex(content, 1), 1, <<>>, nows)
    \o ExtractRaw(content, jsonObjectRegex(content, 1), 1, <<>>)

\* nows = the values Date.now() returns during the call, one for each
\* match of xmlRegex
extractToolCalls(content, nows) ==
    LET xml == ExtractXml(content, xmlRegex(content, 1), 1, <<>>, nows)
    IN IF Len(xml) = 0
       THEN ExtractRaw(content, jsonObjectRegex(content, 1), 1, <<>>)
       ELSE xml

\* content.replace(/<tool_call>[\s\S]*?<\/tool_call>/g, '')
RECURSIVE RemoveSpans(_, _, _, _)
RemoveSpans(content, ms, k, from) ==
    IF k > Len(ms) THEN Slice(content, from, Len(content))
    ELSE Slice(content, from, ms[k].s - 1)
         \o RemoveSpans(content, ms, k + 1, ms[k].c + 2)

RemoveXml(content) == RemoveSpans(content, xmlRegex(content, 1), 1, 1)

OccursAt(s, pat, i) ==
    i + Len(pat) - 1 <= Len(s) /\ SubSeq(s, i, i + Len(pat) - 1) = pat

\* cleaned.replace(new RegExp(escapedJson, 'g'), ''): every occurrence of the
\* literal pat, left to right and not overlapping, from position i on
RECURSIVE ReplaceAll(_, _, _)
ReplaceAll(s, pat, i) ==
    IF i > Len(s) THEN <<>>
    ELSE IF OccursAt(s, pat, i) THEN ReplaceAll(s, pat, i + Len(pat))
    ELSE <<s[i]>> \o ReplaceAll(s, pat, i + 1)

\* the for loop of removeToolCallTags over the matches found in the text as
\* it was after the wrapper spans were removed
RECURSIVE RemoveRaw(_, _, _)
RemoveRaw(cleaned, matches, k) ==
    IF k > Len(matches) THEN cleaned
    ELSE RemoveRaw(IF IsRawToolCall(matches[k])
                   THEN ReplaceAll(cleaned, matches[k], 1) ELSE cleaned,
                   matches, k + 1)

removeToolCallTags(content) ==
    LET cleaned == RemoveXml(content)
        ms == jsonObjectRegex(cleaned, 1)
        matches == [k \in 1..Len(ms) |-> Slice(cleaned, ms[k].s, ms[k].e - 1)]
    IN Trim(RemoveRaw(cleaned, matches, 1))

(***************************************************************************)
(* The parser, legacy version (src/unnamed/part_000:1-73).                 *)
(***************************************************************************)
detectToolCallLegacy(content) == IncludesOpen(content) /\ IncludesClose(content)

RECURSIVE ExtractXmlLegacy(_, _, _, _, _)
ExtractXmlLegacy(content, ms, k, toolCalls, nows) ==
    IF k > Len(ms) THEN toolCalls
    ELSE LET parsed == JSONparse(Trim(Inner(content, ms[k])))
             accepted == /\ parsed.ok
                         /\ Truthy(parsed.f.name)
                         /\ Truthy(parsed.f.arguments)
             rec == [id |-> IF Truthy(parsed.f.id) THEN parsed.f.id
                            ELSE SynthId(nows[k], Len(toolCalls)),
                     name |-> parsed.f.name,
                     arguments |-> parsed.f.arguments]
         IN ExtractXmlLegacy(content, ms, k + 1,
                       IF accepted THEN Append(toolCalls, rec) ELSE toolCalls,
                       nows)

extractToolCallsLegacy(content, nows) ==
    ExtractXmlLegacy(content, xmlRegex(content, 1), 1, <<>>, nows)

removeToolCallTagsLegacy(content) == Trim(RemoveXml(content))

\* the characters of a JavaScript string value, as a template literal
\* inserts them (a value is held as its JSON text)
StringChars(v) ==
    CASE v = <<"\"ls\"">> -> "ls"
      [] v = <<"\"rm\"">> -> "rm"
      [] v = <<"\"c1\"">> -> "c1"
      [] v = <<"\"c2\"">> -> "c2"
      [] v = <<"\"c9\"">> -> "c9"
      [] OTHER            -> "[object Object]"

formatToolResult(toolName, result, isError) ==
    IF isError
    THEN <<"<tool_result name=\"", toolName, "\" error=\"true\">\n">>
         \o result \o <<"\n</tool_result>">>
    ELSE <<"<tool_result name=\"", toolName, "\">\n">>
         \o result \o <<"\n</tool_result>">>

\* content.includes('<tool_result') && content.includes('</tool_result>')
hasToolResult(content) ==
    /\ \E i \in 1..Len(content) :
          content[i] \in {"<tool_result name=\""}
    /\ \E i \in 1..Len(content) : content[i] = "\n</tool_result>"

(***************************************************************************)
(* Pieces: the texts of the model are concatenations of pieces.            *)
(***************************************************************************)
\* {"id":"c1","name":"ls","arguments":{}}
CallLs == <<TokLB, TokId1, TokNameLs, TokArgs, TokLB, TokRB, TokRB>>
\* {"name":"rm","arguments":{"path":"/tmp"}}
CallRm == <<TokLB, TokNameRm, TokArgs, TokLB, TokKV, TokRB, TokRB>>
\* {"name":"ls","id":"c1","arguments":{}}
CallReordered == <<TokLB, TokNameLs, TokId1, TokArgs, TokLB, TokRB, TokRB>>
\* {"name":"rm","arguments":{"c":"</tool_call>"}}
CallQuoted == <<TokLB, TokNameRm, TokArgs, TokLB, TokStrOpen, TokCloseA, TokTail,
                TokQ, TokRB, TokRB>>
\* {"name":"ls","arguments":"s"}
CallStrArgs == <<TokLB, TokNameLs, TokArgs, TokStr, TokRB>>
\* {"id":"c1","name":"ls","arguments":[1]}
CallArrArgs == <<TokLB, TokId1, TokNameLs, TokArgs, TokArr, TokRB>>
\* {"id":"call_2_0","name":"ls","arguments":{"path":"/tmp"}}: a call whose id
\* the model wrote in the form of the ids the parser synthesizes
CallEcho == <<TokLB, TokIdEcho, TokNameLs, TokArgs, TokLB, TokKV, TokRB, TokRB>>
OpenMarker == <<TokOpenA, TokTail>>
CloseMarker == <<TokCloseA, TokTail>>

PieceText(p) ==
    CASE p = "prose"  -> <<TokProse>>
      [] p = "ws"     -> <<TokWs>>
      [] p = "open"   -> OpenMarker
      [] p = "close"  -> CloseMarker
      [] p = "openA"  -> <<TokOpenA>>
      [] p = "tail"   -> <<TokTail>>
      [] p = "lb"     -> <<TokLB>>
      [] p = "rb"     -> <<TokRB>>
      [] p = "callLs" -> CallLs
      [] p = "callRm" -> CallRm
      [] p = "spanLs" -> OpenMarker \o CallLs \o CloseMarker
      [] p = "spanRm" -> OpenMarker \o <<TokWs>> \o CallRm \o CloseMarker
      [] p = "headA"  -> <<TokLB, TokId2>>
      [] p = "tailB"  -> <<TokNameRm, TokArgs, TokLB, TokRB, TokRB>>
      [] p = "tailClose" -> <<TokTail>> \o CloseMarker
      [] p = "spanQ"  -> OpenMarker \o CallQuoted \o CloseMarker
      [] p = "spanEcho" -> OpenMarker \o CallEcho \o CloseMarker
      [] p = "spanBad"    -> OpenMarker \o <<TokProse>> \o CloseMarker
      [] p = "spanNoArgs" -> OpenMarker \o <<TokLB, TokNameLs, TokKV, TokRB>>
                             \o CloseMarker
      [] p = "spanNoName" -> OpenMarker \o <<TokLB, TokKV, TokRB>> \o CloseMarker
      [] p = "spanStrArgs" -> OpenMarker \o CallStrArgs \o CloseMarker
      [] p = "callArrArgs" -> CallArrArgs
      [] p = "callNested" -> <<TokLB, TokId1, TokNameLs, TokArgs, TokLB, TokKeyO,
                               TokLB, TokRB, TokRB, TokRB>>
      [] p = "callReordered" -> CallReordered
      [] p = "spanProse" -> OpenMarker \o <<TokProse, TokWs>> \o CallRm
                            \o <<TokWs, TokProse>> \o CloseMarker
      [] p = "spanTrail" -> OpenMarker \o <<TokProse, TokWs>> \o CallRm
                            \o <<TokWs, TokProse, TokRB>> \o CloseMarker

Pieces == {"prose", "ws", "open", "close", "openA", "tail", "lb", "rb",
           "callLs", "callRm", "spanLs", "spanRm", "headA", "tailB",
           "tailClose", "spanQ", "spanBad", "spanNoArgs", "spanNoName",
           "spanEcho"}

RECURSIVE Flatten(_)
Flatten(ps) == IF ps = <<>> THEN <<>> ELSE PieceText(Head(ps)) \o Flatten(Tail(ps))

PieceSeqs == UNION {[1..n -> Pieces] : n \in 0..MaxPieces}

\* texts of prose and tool calls of particular shapes, wrapped and raw
ShapePieces == {"prose", "ws", "spanLs", "callLs", "spanStrArgs",
                "callArrArgs", "spanProse", "spanTrail", "callNested",
                "callReordered"}
ShapeSeqs == UNION {[1..n -> ShapePieces] : n \in 0..MaxPieces}

(***************************************************************************)
(* State.                                                                  *)
(*   Parser harness: src (the pieces of the input), text (the input),      *)
(*   tver (which version of the parser), op (the function last applied),   *)
(*   detected / extracted / stripped (its result), prev (the argument of   *)
(*   the last removeToolCallTags call, or the result of the first of two   *)
(*   extractToolCalls calls).                                              *)
(*   runInferenceWithTools: ver (which version of the loop), pc (where     *)
(*   the invocation is), iterations, messages (currentRequest.messages),   *)
(*   response (the response being handled, as a sequence of length 0 or    *)
(*   1), toolCalls, idx (the position of the for loop in toolCalls),       *)
(*   toolResults, allToolExecutions, finalResponse (length 0 for null),    *)
(*   returned (the value the invocation returned, length 0 or 1), error    *)
(*   (what it threw).  History: requests (the inference requests issued),  *)
(*   execLog (the tool calls handed to the executor, in order, each with   *)
(*   how its execution ended: the content it returned or the message of    *)
(*   the error it raised), records (the ToolExecutionData objects the      *)
(*   invocation has created, in the order of creation, each with its       *)
(*   status and its place in allToolExecutions, 0 when it was never        *)
(*   appended), failures (the failed executions so far),                   *)
(*   scanned (the iterations whose response text detectToolCall was        *)
(*   applied to).                                                          *)
(*   MCPService.executeTool: ephase (where the call is), ecall (the tool   *)
(*   call), ebackend (what invoke('execute_mcp_tool') did), eresult (the   *)
(*   ToolResult returned, length 0 or 1).                                  *)
(*   formatToolResult: fmtIn (the arguments of the call, length 0 or 1),   *)
(*   fmtOut (the envelope returned, length 0 or 1).                        *)
(*   Callbacks: events (what the invocation did for its tool calls and     *)
(*   which callbacks fired, in order).                                     *)
(*   MCPManager: isInitialized, currentDirectory, parentDirectories (the   *)
(*   fields of the singleton).  MCPService: initialized, config.           *)
(*   invocations (the ensureInitialized calls made so far, each with its   *)
(*   argument, its locals, the await it is at and the value it returned),  *)
(*   lifecycle (the shutdown and initialize operations of the service, as  *)
(*   they were invoked and as their backend calls completed, in order),    *)
(*   paths (the paths the caller may pass).                                *)
(***************************************************************************)
VARIABLES src, text, tver, op, detected, extracted, stripped, prev,
          ver, pc, iterations, messages, response, toolCalls, idx,
          toolResults, allToolExecutions, finalResponse, returned, error,
          requests, execLog, records, failures, scanned,
          ephase, ecall, ebackend, eresult,
          fmtIn, fmtOut, events,
          isInitialized, currentDirectory, parentDirectories,
          initialized, config, invocations, lifecycle, paths

textVars == <<src, text, tver, op, detected, extracted, stripped, prev>>
loopVars == <<ver, pc, iterations, messages, response, toolCalls, idx,
              toolResults, allToolExecutions, finalResponse, returned, error,
              requests, execLog, records, failures, scanned>>
execVars == <<ephase, ecall, ebackend, eresult>>
fmtVars == <<fmtIn, fmtOut>>
mgrVars == <<isInitialized, currentDirectory, parentDirectories,
             initialized, config, invocations, lifecycle, paths>>
auxVars == <<fmtVars, events, mgrVars>>
vars == <<textVars, loopVars, execVars, auxVars>>

Versions == {"current", "legacy"}
Clock == 1..MaxClock

detectToolCallOf(v, content) ==
    IF v = "legacy" THEN detectToolCallLegacy(content) ELSE detectToolCall(content)
extractToolCallsOf(v, content, nows) ==
    IF v = "legacy" THEN extractToolCallsLegacy(content, nows)
    ELSE extractToolCalls(content, nows)

\* what Date.now() may return at the n reads of one call, out of the given
\* values: the clock goes on or stands still between two reads
Readings(n, values) ==
    {c \in [1..n -> values] : \A i \in 1..(n - 1) : c[i] <= c[i + 1]}

\* the call reads the clock in the iteration of the match m: the inner
\* text parses to a record with a name and arguments and without an id
\* (`parsed.id || ...` is evaluated at the push only)
ReadsClock(v, content, m) ==
    LET inner == Trim(Inner(content, m))
        parsed == JSONparse(IF v = "legacy" THEN inner ELSE JsonMatch(inner))
    IN /\ parsed.ok
       /\ Truthy(parsed.f.name) /\ Truthy(parsed.f.arguments)
       /\ ~Truthy(parsed.f.id)

\* the readings of a call of version v on a text, out of the given values:
\* one for each match of xmlRegex, any at the matches where the clock is
\* read; at a match where it is not read the entry is never looked at and
\* stands for the time of the read before it
ReadingsAt(v, content, values) ==
    LET ms == xmlRegex(content, 1)
        reads == {k \in 1..Len(ms) : ReadsClock(v, content, ms[k])}
        least == CHOOSE x \in values : \A y \in values : x <= y
    IN {c \in Readings(Len(ms), values) :
           \A k \in (1..Len(ms)) \ reads :
              c[k] = IF k = 1 THEN least ELSE c[k - 1]}

\* the readings of a call on a text
NowsFor(v, content) == ReadingsAt(v, content, Clock)
removeToolCallTagsOf(v, content) ==
    IF v = "legacy" THEN removeToolCallTagsLegacy(content)
    ELSE removeToolCallTags(content)

\* formatToolResult is not being called and no callback is observed
\* null, where a string (a sequence of characters) or a record is expected
Null == <<"null">>

\* lines 12-14, part_000:115-117: the fields of the two singletons
MgrFields ==
    /\ isInitialized = FALSE /\ currentDirectory = Null
    /\ parentDirectories = {}
    /\ initialized = FALSE /\ config = Null
    /\ invocations = <<>> /\ lifecycle = <<>>

MgrIdle == MgrFields /\ paths = {}

AuxIdle == fmtIn = <<>> /\ fmtOut = <<>> /\ events = <<>> /\ MgrIdle

TextIdle ==
    /\ src = <<>> /\ text = <<>> /\ tver = "current" /\ op = "idle"
    /\ detected = FALSE /\ extracted = <<>> /\ stripped = <<>> /\ prev = <<>>

ShapeInit ==
    /\ src \in ShapeSeqs
    /\ text = Flatten(src)
    /\ tver \in Versions
    /\ op = "input"
    /\ detected = FALSE /\ extracted = <<>> /\ stripped = <<>> /\ prev = <<>>

TextInit ==
    /\ src \in PieceSeqs
    /\ text = Flatten(src)
    /\ tver \in Versions
    /\ op = "input"
    /\ detected = FALSE /\ extracted = <<>> /\ stripped = <<>> /\ prev = <<>>

DoDetect ==
    /\ op = "input"
    /\ op' = "detect"
    /\ detected' = detectToolCallOf(tver, text)
    /\ UNCHANGED <<src, text, tver, extracted, stripped, prev>>
    /\ UNCHANGED <<loopVars, execVars, auxVars>>

DoExtract ==
    /\ op = "input"
    /\ op' = "extract"
    /\ \E nows \in NowsFor(tver, text) :
          extracted' = extractToolCallsOf(tver, text, nows)
    /\ UNCHANGED <<src, text, tver, detected, stripped, prev>>
    /\ UNCHANGED <<loopVars, execVars, auxVars>>

DoStrip ==
    /\ op = "input"
    /\ op' = "strip"
    /\ prev' = text
    /\ stripped' = removeToolCallTagsOf(tver, text)
    /\ UNCHANGED <<src, text, tver, detected, extracted>>
    /\ UNCHANGED <<loopVars, execVars, auxVars>>

\* removeToolCallTags applied to its own result
DoStripAgain ==
    /\ op = "strip"
    /\ op' = "strip2"
    /\ prev' = stripped
    /\ stripped' = removeToolCallTagsOf(tver, stripped)
    /\ UNCHANGED <<src, text, tver, detected, extracted>>
    /\ UNCHANGED <<loopVars, execVars, auxVars>>

\* extractToolCalls applied a second time to the same text: the clock does
\* not go back, so what Date.now() returns is the last value the first
\* call can have read or a later one
LaterClock == MaxClock..(MaxClock + 1)
DoExtractAgain ==
    /\ op = "extract"
    /\ op' = "extract2"
    /\ prev' = extracted
    /\ \E nows \in ReadingsAt(tver, text, LaterClock) :
          extracted' = extractToolCallsOf(tver, text, nows)
    /\ UNCHANGED <<src, text, tver, detected, stripped>>
    /\ UNCHANGED <<loopVars, execVars, auxVars>>

TextNext == DoDetect \/ DoExtract \/ DoStrip \/ DoStripAgain \/ DoExtractAgain


(***************************************************************************)
(* runInferenceWithTools (src/src/lib/ai/mcp-manager.ts:243-438, and the   *)
(* legacy copy src/src/lib/ai/inference-with-tools.ts:37-171).             *)
(*                                                                         *)
(* The inference backend and the tool executor are the loop's environment: *)
(* a response is drawn from Responses (or the inference call rejects), and *)
(* an execution returns an outcome from ToolReturns or raises.  The        *)
(* callbacks onChunk, onProgress and onToolExecution (lines 320-325,       *)
(* 354-362, 398-404) are absent or return normally: they read the loop's   *)
(* values and change none of them.                                         *)
(***************************************************************************)
MAX_TOOL_ITERATIONS == 5

TokUsing == "(Using tools...)"
BudgetError == "Maximum tool calling iterations reached"

\* JSON.parse(tc.function.arguments): the value, for a text that parses
JSONvalue(toks) == NoWs(toks)

\* a native tool call {id, function: {name, arguments}}
NativeLs == [id |-> <<"\"c9\"">>, name |-> <<"\"ls\"">>,
             arguments |-> <<TokLB, TokKV, TokRB>>]
NativeBad == [id |-> <<"\"c9\"">>, name |-> <<"\"rm\"">>,
              arguments |-> <<TokLB, TokKV>>]

Message(role, content) == [role |-> role, content |-> content]

\* what runInference may resolve with: message.content, message.toolCalls
Response(content, native) == [content |-> content, toolCalls |-> native]

Responses ==
    { Response(<<TokProse>>, <<>>),
      Response(Flatten(<<"open", "prose", "close">>), <<>>),
      Response(Flatten(<<"spanLs", "ws", "spanRm">>), <<>>),
      Response(Flatten(<<"prose", "callLs">>), <<>>),
      Response(Flatten(<<"spanRm">>), <<NativeLs>>),
      Response(Flatten(<<"prose">>), <<NativeLs, NativeBad>>),
      Response(CallReordered, <<>>) }

InitialMessages == <<Message("user", <<TokProse>>)>>

\* what mcpService.executeTool may resolve with
ToolReturns ==
    { [content |-> <<"ok">>, isError |-> FALSE],
      [content |-> <<"ENOENT">>, isError |-> TRUE] }
\* the messages of the errors it may reject with
ToolErrors == {"boom"}

\* Date.now() - startTime, a number
Elapsed == <<"ms">>

LoopIdle ==
    /\ ver = "current" /\ pc = "idle" /\ iterations = 0 /\ messages = <<>>
    /\ response = <<>> /\ toolCalls = <<>> /\ idx = 0 /\ toolResults = <<>>
    /\ allToolExecutions = <<>> /\ finalResponse = <<>> /\ returned = <<>>
    /\ error = "" /\ requests = <<>> /\ execLog = <<>> /\ records = <<>>
    /\ failures = 0
    /\ scanned = {}

\* lines 247-252: the locals of a fresh invocation
LoopInit ==
    /\ ver \in Versions
    /\ pc = "loop" /\ iterations = 0 /\ messages = InitialMessages
    /\ response = <<>> /\ toolCalls = <<>> /\ idx = 0 /\ toolResults = <<>>
    /\ allToolExecutions = <<>> /\ finalResponse = <<>> /\ returned = <<>>
    /\ error = "" /\ requests = <<>> /\ execLog = <<>> /\ records = <<>>
    /\ failures = 0
    /\ scanned = {}

\* a loop without a ceiling: while (true)
RequestUnbounded ==
    /\ pc = "loop"
    /\ iterations' = iterations + 1
    /\ requests' = Append(requests, messages)
    /\ pc' = "requesting"
    /\ UNCHANGED <<ver, messages, response, toolCalls, idx, toolResults,
                   allToolExecutions, finalResponse, returned, error,
                   execLog, records, failures, scanned>>
    /\ UNCHANGED <<textVars, execVars, auxVars>>

\* the loop condition written as iterations <= MAX_TOOL_ITERATIONS
RequestOffByOne ==
    /\ pc = "loop" /\ iterations <= MAX_TOOL_ITERATIONS
    /\ iterations' = iterations + 1
    /\ requests' = Append(requests, messages)
    /\ pc' = "requesting"
    /\ UNCHANGED <<ver, messages, response, toolCalls, idx, toolResults,
                   allToolExecutions, finalResponse, returned, error,
                   execLog, records, failures, scanned>>
    /\ UNCHANGED <<textVars, execVars, auxVars>>

\* lines 254-260: the loop condition holds; iterations++ and runInference is
\* called with the current messages
Request ==
    /\ pc = "loop" /\ iterations < MAX_TOOL_ITERATIONS
    /\ iterations' = iterations + 1
    /\ requests' = Append(requests, messages)
    /\ pc' = "requesting"
    /\ UNCHANGED <<ver, messages, response, toolCalls, idx, toolResults,
                   allToolExecutions, finalResponse, returned, error,
                   execLog, records, failures, scanned>>
    /\ UNCHANGED <<textVars, execVars, auxVars>>

\* lines 254, 428-430: the loop condition fails with finalResponse null
BudgetExceeded ==
    /\ pc = "loop" /\ iterations >= MAX_TOOL_ITERATIONS
    /\ finalResponse = <<>>
    /\ pc' = "aborted"
    /\ error' = BudgetError
    /\ UNCHANGED <<ver, iterations, messages, response, toolCalls, idx,
                   toolResults, allToolExecutions, finalResponse, returned,
                   requests, execLog, records, failures, scanned>>
    /\ UNCHANGED <<textVars, execVars, auxVars>>

\* line 260: runInference resolves
InferenceReturns ==
    /\ pc = "requesting"
    /\ \E r \in Responses : response' = <<r>>
    /\ pc' = "inspecting"
    /\ UNCHANGED <<ver, iterations, messages, toolCalls, idx, toolResults,
                   allToolExecutions, finalResponse, returned, error,
                   requests, execLog, records, failures, scanned>>
    /\ UNCHANGED <<textVars, execVars, auxVars>>

\* runInference rejects, the error is swallowed and the loop goes on
InferenceFailsRetried ==
    /\ pc = "requesting"
    /\ pc' = "loop"
    /\ UNCHANGED <<ver, iterations, messages, response, toolCalls, idx,
                   toolResults, allToolExecutions, finalResponse, returned,
                   error, requests, execLog, records, failures, scanned>>
    /\ UNCHANGED <<textVars, execVars, auxVars>>

\* line 260: runInference rejects; nothing catches it
InferenceFails ==
    /\ pc = "requesting"
    /\ pc' = "aborted"
    /\ error' = "inference failed"
    /\ UNCHANGED <<ver, iterations, messages, response, toolCalls, idx,
                   toolResults, allToolExecutions, finalResponse, returned,
                   requests, execLog, records, failures, scanned>>
    /\ UNCHANGED <<textVars, execVars, auxVars>>

\* the response text is looked at first, the native list only when the
\* text shows no tool call
UsesNativeUnlessMarked(v, r) ==
    v = "current" /\ Len(r.toolCalls) > 0 /\ ~detectToolCallOf(v, r.content)

\* lines 267-274: is the native list used
UsesNative(v, r) == v = "current" /\ Len(r.toolCalls) > 0

\* lines 270-274: toolCalls.map(...); JSON.parse throws on an argument text
\* that does not parse
NativeDecodable(r) ==
    \A k \in 1..Len(r.toolCalls) : JSONparse(r.toolCalls[k].arguments).ok
NativeCalls(r) ==
    [k \in 1..Len(r.toolCalls) |->
        [id |-> r.toolCalls[k].id, name |-> r.toolCalls[k].name,
         arguments |-> JSONvalue(r.toolCalls[k].arguments)]]

\* extractToolCalls applied without asking detectToolCall first
InspectCallsNoDetect(v, r, nows) ==
    IF v = "current" /\ Len(r.toolCalls) > 0
    THEN [k \in 1..Len(r.toolCalls) |->
            [id |-> r.toolCalls[k].id, name |-> r.toolCalls[k].name,
             arguments |-> JSONvalue(r.toolCalls[k].arguments)]]
    ELSE extractToolCallsOf(v, r.content, nows)

\* lines 264-289: the tool calls of a response (current); lines 56-65 (legacy)
InspectCalls(v, r, nows) ==
    IF UsesNative(v, r) THEN NativeCalls(r)
    ELSE IF ~detectToolCallOf(v, r.content) THEN <<>>
    ELSE extractToolCallsOf(v, r.content, nows)

\* lines 264-300
Inspect ==
    /\ pc = "inspecting"
    /\ LET r == response[1]
       IN IF UsesNative(ver, r) /\ ~NativeDecodable(r)
          THEN /\ pc' = "aborted"
               /\ error' = "SyntaxError"
               /\ UNCHANGED <<toolCalls, idx, toolResults, finalResponse>>
          ELSE \E nows \in NowsFor(ver, r.content) :
               LET calls == InspectCalls(ver, r, nows)
               IN IF Len(calls) = 0
                  THEN /\ finalResponse' = <<r>>
                       /\ pc' = "finish"
                       /\ UNCHANGED <<toolCalls, idx, toolResults, error>>
                  ELSE /\ toolCalls' = calls
                       /\ idx' = 1
                       /\ toolResults' = <<>>
                       /\ pc' = "executing"
                       /\ UNCHANGED <<finalResponse, error>>
    /\ scanned' = IF UsesNative(ver, response[1]) THEN scanned
                  ELSE scanned \cup {iterations}
    /\ UNCHANGED <<ver, iterations, messages, response, allToolExecutions,
                   returned, requests, execLog, records, failures>>
    /\ UNCHANGED <<textVars, execVars, auxVars>>

\* lines 313-317: the ToolExecutionData object created before the tool
\* runs, for the execution that is entry e of execLog; the legacy loop
\* creates none
NewRecord(v, e) ==
    IF v = "current"
    THEN <<[execution |-> e, status |-> "executing", slot |-> 0]>>
    ELSE <<>>

\* lines 343-351: the object created last takes the status of the result
\* and is appended to the accumulator, where it is entry number slot
RecordMoved(v, recs, status, slot) ==
    IF v = "current"
    THEN [recs EXCEPT ![Len(recs)].status = status, ![Len(recs)].slot = slot]
    ELSE recs

\* lines 377-383: the catch block creates another object, with status
\* 'error', for the execution that is entry e of execLog and appends it to
\* the accumulator; the object of lines 313-317 is left as it is
RecordCaught(v, e, slot) ==
    IF v = "current"
    THEN <<[execution |-> e, status |-> "error", slot |-> slot]>>
    ELSE <<>>

\* every remaining call of the response is handed to the executor at once
ToolStartConcurrent ==
    /\ pc = "executing" /\ idx <= Len(toolCalls)
    /\ execLog' = execLog \o [k \in 1..(Len(toolCalls) - idx + 1) |->
                                [name |-> toolCalls[idx + k - 1].name,
                                 arguments |-> toolCalls[idx + k - 1].arguments,
                                 iteration |-> iterations,
                                 outcome |-> "executing",
                                 raised |-> FALSE, content |-> Undefined]]
    /\ records' = records \o NewRecord(ver, Len(execLog) + 1)
    /\ pc' = "awaitTool"
    /\ UNCHANGED <<ver, iterations, messages, response, toolCalls, idx,
                   toolResults, allToolExecutions, finalResponse, returned,
                   error, requests, failures, scanned>>
    /\ UNCHANGED <<textVars, execVars, auxVars>>

\* lines 305-328: the record is created, the callback is told, and
\* mcpService.executeTool is called with the tool call
ToolStart ==
    /\ pc = "executing" /\ idx <= Len(toolCalls)
    /\ execLog' = Append(execLog, [name |-> toolCalls[idx].name,
                                   arguments |-> toolCalls[idx].arguments,
                                   iteration |-> iterations,
                                   outcome |-> "executing",
                                   raised |-> FALSE, content |-> Undefined])
    /\ records' = records \o NewRecord(ver, Len(execLog) + 1)
    /\ pc' = "awaitTool"
    /\ UNCHANGED <<ver, iterations, messages, response, toolCalls, idx,
                   toolResults, allToolExecutions, finalResponse, returned,
                   error, requests, failures, scanned>>
    /\ UNCHANGED <<textVars, execVars, auxVars>>

\* lines 343-348: the record of an execution that returned
ReturnedRecord(call, result) ==
    [toolName |-> call.name, arguments |-> call.arguments,
     status |-> IF result.isError THEN "error" ELSE "success",
     result |-> result.content,
     error |-> IF result.isError THEN result.content ELSE Undefined,
     executionTimeMs |-> Elapsed]

\* lines 377-382: the record of an execution that raised
RaisedRecord(call, msg) ==
    [toolName |-> call.name, arguments |-> call.arguments,
     status |-> "error", result |-> Undefined, error |-> <<msg>>,
     executionTimeMs |-> Undefined]

\* lines 365-370
ToolResultMessage(call, result) ==
    Message("user", formatToolResult(StringChars(call.name), result.content,
                                     result.isError))
\* lines 385-394
ToolErrorMessage(call, msg) ==
    Message("user", formatToolResult(StringChars(call.name),
                                     <<"Error: ", msg>>, TRUE))

\* an accumulator that keeps the last record only
AccumulateLast(acc, rec) == <<rec>>

\* lines 351, 383: allToolExecutions.push(toolExecution)
Accumulate(acc, rec) == Append(acc, rec)

\* the history of the executions (not the ToolExecutionData objects, which
\* are in records): the execution handed to the executor last has ended,
\* it returned a result with this content, or it raised an error with this
\* message
Ended(log, how, raised, content) ==
    [log EXCEPT ![Len(log)].outcome = how,
                ![Len(log)].raised = raised,
                ![Len(log)].content = content]

\* lines 305, 406: the for loop moves to the next call, or ends
AfterCall ==
    /\ idx' = idx + 1
    /\ pc' = IF idx + 1 > Len(toolCalls) THEN "append" ELSE "executing"

\* lines 328-372: executeTool resolves
ToolReturnsResult ==
    /\ pc = "awaitTool"
    /\ \E result \in ToolReturns :
         /\ result.isError => failures < MaxFailures
         /\ failures' = IF result.isError THEN failures + 1 ELSE failures
         /\ allToolExecutions' =
               IF ver = "current"
               THEN Accumulate(allToolExecutions, ReturnedRecord(toolCalls[idx], result))
               ELSE allToolExecutions
         /\ execLog' = Ended(execLog, IF result.isError THEN "error" ELSE "success",
                          FALSE, result.content)
         /\ records' = RecordMoved(ver, records,
                                   IF result.isError THEN "error" ELSE "success",
                                   Len(allToolExecutions) + 1)
         /\ toolResults' = Append(toolResults, ToolResultMessage(toolCalls[idx], result))
    /\ AfterCall
    /\ UNCHANGED <<ver, iterations, messages, response, toolCalls,
                   finalResponse, returned, error, requests, scanned>>
    /\ UNCHANGED <<textVars, execVars, auxVars>>

\* the execution raises and nothing catches it
ToolRaisesAborts ==
    /\ pc = "awaitTool"
    /\ failures < MaxFailures
    /\ failures' = failures + 1
    /\ \E msg \in ToolErrors : error' = msg
    /\ execLog' = [execLog EXCEPT ![Len(execLog)].outcome = "error"]
    /\ pc' = "aborted"
    /\ UNCHANGED <<ver, iterations, messages, response, toolCalls, idx,
                   toolResults, allToolExecutions, finalResponse, returned,
                   requests, records, scanned>>
    /\ UNCHANGED <<textVars, execVars, auxVars>>

\* lines 373-405: the execution raises and the catch block runs.  The
\* object created at lines 313-317 keeps its status 'executing' and is
\* appended nowhere; the catch block creates an object with status 'error'
\* (377-382) and appends that one (383)
ToolRaises ==
    /\ pc = "awaitTool"
    /\ failures < MaxFailures
    /\ failures' = failures + 1
    /\ \E msg \in ToolErrors :
         /\ allToolExecutions' =
               IF ver = "current"
               THEN Accumulate(allToolExecutions, RaisedRecord(toolCalls[idx], msg))
               ELSE allToolExecutions
         /\ execLog' = Ended(execLog, "error", TRUE, <<msg>>)
         /\ records' = records \o RecordCaught(ver, Len(execLog),
                                               Len(allToolExecutions) + 1)
         /\ toolResults' = Append(toolResults, ToolErrorMessage(toolCalls[idx], msg))
    /\ AfterCall
    /\ UNCHANGED <<ver, iterations, messages, response, toolCalls,
                   finalResponse, returned, error, requests, scanned>>
    /\ UNCHANGED <<textVars, execVars, auxVars>>

\* the response text is kept as it is
AssistantContentRaw(v, content) == content

\* lines 409-413: removeToolCallTags(content) || '(Using tools...)'
AssistantContent(v, content) ==
    LET shown == removeToolCallTagsOf(v, content)
    IN IF shown = <<>> THEN <<TokUsing>> ELSE shown

\* the next request carries the messages of the iteration only
AppendHistoryDropsEarlier ==
    /\ pc = "append"
    /\ messages' = <<Message("assistant", AssistantContent(ver, response[1].content))>>
                   \o toolResults
    /\ pc' = "loop"
    /\ UNCHANGED <<ver, iterations, response, toolCalls, idx, toolResults,
                   allToolExecutions, finalResponse, returned, error,
                   requests, execLog, records, failures, scanned>>
    /\ UNCHANGED <<textVars, execVars, auxVars>>

\* lines 408-426: the history grows and the loop condition is tested again
AppendHistory ==
    /\ pc = "append"
    /\ messages' = messages
                   \o <<Message("assistant", AssistantContent(ver, response[1].content))>>
                   \o toolResults
    /\ pc' = "loop"
    /\ UNCHANGED <<ver, iterations, response, toolCalls, idx, toolResults,
                   allToolExecutions, finalResponse, returned, error,
                   requests, execLog, records, failures, scanned>>
    /\ UNCHANGED <<textVars, execVars, auxVars>>

\* lines 432-437: the trace is attached (current version) and the response
\* is returned
Finish ==
    /\ pc = "finish"
    /\ returned' = <<[content |-> finalResponse[1].content,
                      toolCalls |-> finalResponse[1].toolCalls,
                      toolExecutions |-> IF ver = "current"
                                         THEN allToolExecutions ELSE <<>>]>>
    /\ pc' = "done"
    /\ UNCHANGED <<ver, iterations, messages, response, toolCalls, idx,
                   toolResults, allToolExecutions, finalResponse, error,
                   requests, execLog, records, failures, scanned>>
    /\ UNCHANGED <<textVars, execVars, auxVars>>

(***************************************************************************)
(* MCPService.executeTool (src/unnamed/part_000:205-260).  The backend     *)
(* behind invoke('execute_mcp_tool') is the environment: the call resolves *)
(* with an ExecuteToolResponse, resolves with a value that has no content  *)
(* array, or rejects.                                                      *)
(***************************************************************************)
\* the items of ExecuteToolResponse.content; an absent text or uri is
\* Undefined
TextPart(t) == [type |-> "text", text |-> t, uri |-> Undefined]
ResourcePart(u, t) == [type |-> "resource", text |-> t, uri |-> u]

Parts ==
    { TextPart(<<"out">>),
      TextPart(Undefined),
      ResourcePart(<<"file:///a">>, Undefined),
      ResourcePart(<<"file:///a">>, <<"body">>) }

PartLists == UNION {[1..n -> Parts] : n \in 0..MaxParts}

\* lines 224-231: the text of one item
PartText(c) ==
    IF c.type = "text" /\ c.text # Undefined THEN c.text
    ELSE IF c.type = "resource" /\ c.uri # Undefined
         THEN <<"Resource: ">> \o c.uri
              \o (IF c.text # Undefined THEN <<"\n">> \o c.text ELSE <<>>)
    ELSE <<>>

\* lines 223-232: .map(...).join('\n')
RECURSIVE JoinParts(_)
JoinParts(cs) ==
    IF cs = <<>> THEN <<>>
    ELSE IF Len(cs) = 1 THEN PartText(cs[1])
    ELSE PartText(cs[1]) \o <<"\n">> \o JoinParts(Tail(cs))

\* a number that is absent is Undefined, one that is present is <<n>>
BackendTimes == {Undefined, <<0>>, <<7>>}
BackendErrors == {Undefined, <<"Unknown tool">>}

BackendResponses ==
    [success : BOOLEAN, content : PartLists, is_error : BOOLEAN,
     execution_time_ms : BackendTimes, error : BackendErrors]

BackendOutcomes ==
    {[kind |-> "resolve", resp |-> r, msg |-> ""] : r \in BackendResponses}
    \cup {[kind |-> "malformed", resp |-> <<>>,
           msg |-> "Cannot read properties of undefined (reading 'map')"]}
    \cup {[kind |-> "reject", resp |-> <<>>, msg |-> "Unknown tool"]}

ExecCalls ==
    { [id |-> <<"\"c1\"">>, name |-> <<"\"ls\"">>, arguments |-> <<TokLB, TokRB>>],
      [id |-> <<"\"c2\"">>, name |-> <<"\"nope\"">>, arguments |-> <<TokLB, TokRB>>] }

\* Date.now() - startTime (line 220)
InvokeTimes == 0..MaxElapsed

\* lines 234-239: response.execution_time_ms || invokeTime
ResultOf(toolCall, resp, invokeTime) ==
    [tool_call_id |-> toolCall.id,
     content |-> JoinParts(resp.content),
     isError |-> resp.is_error,
     executionTimeMs |-> IF resp.execution_time_ms \in {Undefined, <<0>>}
                         THEN <<invokeTime>> ELSE resp.execution_time_ms]

\* lines 252-259: the catch block
CaughtResult(toolCall, msg) ==
    [tool_call_id |-> toolCall.id,
     content |-> <<"Error: ", msg>>,
     isError |-> TRUE,
     executionTimeMs |-> Undefined]

ExecIdle ==
    /\ ephase = "idle" /\ ecall = <<>> /\ ebackend = <<>> /\ eresult = <<>>

ExecInit ==
    /\ ephase = "called"
    /\ \E c \in ExecCalls : ecall = <<c>>
    /\ ebackend = <<>> /\ eresult = <<>>

\* lines 210-219: the request is built and invoke is called
Invoke ==
    /\ ephase = "called"
    /\ ephase' = "invoking"
    /\ UNCHANGED <<ecall, ebackend, eresult>>
    /\ UNCHANGED <<textVars, loopVars, auxVars>>

\* lines 217-251: invoke resolves with a response
BackendResolves ==
    /\ ephase = "invoking"
    /\ \E b \in BackendOutcomes, t \in InvokeTimes :
         /\ b.kind = "resolve"
         /\ ebackend' = <<b>>
         /\ eresult' = <<ResultOf(ecall[1], b.resp, t)>>
    /\ ephase' = "returned"
    /\ UNCHANGED ecall
    /\ UNCHANGED <<textVars, loopVars, auxVars>>

\* lines 217-259: invoke rejects, or its value has no content array and
\* response.content.map throws; the catch block builds the result
BackendFails ==
    /\ ephase = "invoking"
    /\ \E b \in BackendOutcomes :
         /\ b.kind \in {"reject", "malformed"}
         /\ ebackend' = <<b>>
         /\ eresult' = <<CaughtResult(ecall[1], b.msg)>>
    /\ ephase' = "returned"
    /\ UNCHANGED ecall
    /\ UNCHANGED <<textVars, loopVars, auxVars>>

ExecNext == Invoke \/ BackendResolves \/ BackendFails

(***************************************************************************)
(* The loop with its callbacks (current version).  onToolExecution is      *)
(* present and may raise; onChunk is fired by the inference backend while  *)
(* its call is pending and returns normally.  events is the log of what    *)
(* the loop and the backend did, in order: "chunk" (onChunk fired), "pre", *)
(* "post", "failed" (onToolExecution invoked at lines 320, 354, 398),     *)
(* "invoke" (mcpService.executeTool called), "returned" (it resolved),     *)
(* "push" (a record appended to the accumulator), "message" (a tool-result *)
(* message appended).  An event carries the iteration and the index of the *)
(* call it belongs to (0 for a chunk) and, where it has one, a status.     *)
(***************************************************************************)
Event(kind, call, status) ==
    [kind |-> kind, iteration |-> iterations, call |-> call, status |-> status]

Chunks == SelectSeq(events, LAMBDA e : e.kind = "chunk")

\* the request is not awaited: its chunks arrive while the loop goes on
ChunkLate ==
    /\ pc \in {"requesting", "executing", "awaitTool", "post"}
    /\ Len(Chunks) < MaxChunks
    /\ events' = Append(events, Event("chunk", 0, "none"))
    /\ UNCHANGED <<textVars, loopVars, execVars, fmtVars, mgrVars>>

\* line 260: the backend fires onChunk while runInference is pending
Chunk ==
    /\ pc = "requesting"
    /\ Len(Chunks) < MaxChunks
    /\ events' = Append(events, Event("chunk", 0, "none"))
    /\ UNCHANGED <<textVars, loopVars, execVars, fmtVars, mgrVars>>

\* the responses of the backend here: a final text, a text with two
\* wrapped calls
CbResponses ==
    { Response(<<TokProse>>, <<>>),
      Response(Flatten(<<"spanLs", "ws", "spanRm">>), <<>>) }

\* line 260: runInference resolves
CbInferenceReturns ==
    /\ pc = "requesting"
    /\ \E r \in CbResponses : response' = <<r>>
    /\ pc' = "inspecting"
    /\ UNCHANGED <<ver, iterations, messages, toolCalls, idx, toolResults,
                   allToolExecutions, finalResponse, returned, error,
                   requests, execLog, records, failures, scanned>>
    /\ UNCHANGED <<textVars, execVars, auxVars>>

\* the new entry of the execution log for the call at idx
Created(outcome, raised, content) ==
    [name |-> toolCalls[idx].name, arguments |-> toolCalls[idx].arguments,
     iteration |-> iterations, outcome |-> outcome,
     raised |-> raised, content |-> content]

\* lines 373-405: the catch block with the error message msg, entered with
\* the log evs and the objects recs, for the execution that is entry e of
\* execLog: it creates an object with status 'error' and appends it; its
\* onToolExecution call returns, or raises and ends the invocation
Caught(msg, evs, recs, e) ==
    /\ allToolExecutions' =
          Accumulate(allToolExecutions, RaisedRecord(toolCalls[idx], msg))
    /\ records' = recs \o RecordCaught("current", e, Len(allToolExecutions) + 1)
    /\ toolResults' = Append(toolResults, ToolErrorMessage(toolCalls[idx], msg))
    /\ events' = evs \o <<Event("push", idx, "error"),
                          Event("message", idx, "error"),
                          Event("failed", idx, "error")>>
    /\ \/ /\ AfterCall
          /\ UNCHANGED error
       \/ /\ pc' = "aborted"
          /\ error' = "callback failed"
          /\ UNCHANGED idx

\* lines 305-328: the record is created, onToolExecution is told and
\* returns, mcpService.executeTool is called
CbStart ==
    /\ pc = "executing" /\ idx <= Len(toolCalls)
    /\ execLog' = Append(execLog, Created("executing", FALSE, Undefined))
    /\ records' = records \o NewRecord("current", Len(execLog) + 1)
    /\ events' = events \o <<Event("pre", idx, "executing"),
                             Event("invoke", idx, "executing")>>
    /\ pc' = "awaitTool"
    /\ UNCHANGED <<ver, iterations, messages, response, toolCalls, idx,
                   toolResults, allToolExecutions, finalResponse, returned,
                   error, requests, failures, scanned>>
    /\ UNCHANGED <<textVars, execVars, fmtVars, mgrVars>>

\* lines 305-325, 373-405: the record is created, onToolExecution raises,
\* the catch block runs
CbPreRaises ==
    /\ pc = "executing" /\ idx <= Len(toolCalls)
    /\ failures < MaxFailures
    /\ failures' = failures + 1
    /\ \E msg \in ToolErrors :
         /\ execLog' = Append(execLog, Created("error", TRUE, <<msg>>))
         /\ Caught(msg, Append(events, Event("pre", idx, "executing")),
                   records \o NewRecord("current", Len(execLog) + 1),
                   Len(execLog) + 1)
    /\ UNCHANGED <<ver, iterations, messages, response, toolCalls,
                   finalResponse, returned, requests, scanned>>
    /\ UNCHANGED <<textVars, execVars, fmtVars, mgrVars>>

\* lines 328-351: executeTool resolves, the record takes its status and is
\* appended to the accumulator
CbToolReturns ==
    /\ pc = "awaitTool"
    /\ \E result \in ToolReturns :
         LET status == IF result.isError THEN "error" ELSE "success"
         IN /\ result.isError => failures < MaxFailures
            /\ failures' = IF result.isError THEN failures + 1 ELSE failures
            /\ allToolExecutions' =
                  Accumulate(allToolExecutions,
                             ReturnedRecord(toolCalls[idx], result))
            /\ execLog' = Ended(execLog, status, FALSE, result.content)
            /\ records' = RecordMoved("current", records, status,
                                      Len(allToolExecutions) + 1)
            /\ events' = events \o <<Event("returned", idx, status),
                                     Event("push", idx, status)>>
    /\ pc' = "post"
    /\ UNCHANGED <<ver, iterations, messages, response, toolCalls, idx,
                   toolResults, finalResponse, returned, error, requests,
                   scanned>>
    /\ UNCHANGED <<textVars, execVars, fmtVars, mgrVars>>

\* the result the record pushed last was built from
LastResult ==
    LET rec == allToolExecutions[Len(allToolExecutions)]
    IN [content |-> rec.result, isError |-> rec.status = "error"]

\* lines 354-372: onToolExecution is told the result and returns, the
\* tool-result message is appended
CbPost ==
    /\ pc = "post"
    /\ toolResults' = Append(toolResults,
                             ToolResultMessage(toolCalls[idx], LastResult))
    /\ events' = events \o <<Event("post", idx, execLog[Len(execLog)].outcome),
                             Event("message", idx, execLog[Len(execLog)].outcome)>>
    /\ AfterCall
    /\ UNCHANGED <<ver, iterations, messages, response, toolCalls,
                   allToolExecutions, finalResponse, returned, error,
                   requests, execLog, records, failures, scanned>>
    /\ UNCHANGED <<textVars, execVars, fmtVars, mgrVars>>

\* lines 354-362, 373-405: onToolExecution is told the result and raises,
\* the catch block runs
CbPostRaises ==
    /\ pc = "post"
    /\ failures < MaxFailures
    /\ failures' = failures + 1
    /\ \E msg \in ToolErrors :
         Caught(msg, Append(events,
                            Event("post", idx, execLog[Len(execLog)].outcome)),
                records, Len(execLog))
    /\ UNCHANGED <<ver, iterations, messages, response, toolCalls,
                   finalResponse, returned, requests, execLog, scanned>>
    /\ UNCHANGED <<textVars, execVars, fmtVars, mgrVars>>

\* lines 328, 373-405: executeTool rejects, the catch block runs
CbToolRaises ==
    /\ pc = "awaitTool"
    /\ failures < MaxFailures
    /\ failures' = failures + 1
    /\ \E msg \in ToolErrors :
         /\ execLog' = Ended(execLog, "error", TRUE, <<msg>>)
         /\ Caught(msg, events, records, Len(execLog))
    /\ UNCHANGED <<ver, iterations, messages, response, toolCalls,
                   finalResponse, returned, requests, scanned>>
    /\ UNCHANGED <<textVars, execVars, fmtVars, mgrVars>>

CbNext ==
    \/ Request \/ BudgetExceeded \/ Chunk \/ CbInferenceReturns \/ InferenceFails
    \/ Inspect \/ CbStart \/ CbPreRaises \/ CbToolReturns \/ CbToolRaises
    \/ CbPost \/ CbPostRaises \/ AppendHistory \/ Finish

(***************************************************************************)
(* formatToolResult (ModeSelector.tsx:255-265) on its own.  A tool name is *)
(* any string, a result text any sequence of lines.                        *)
(***************************************************************************)
FmtNames == {"ls", "rm", "ls\" error=\"true"}
FmtLines == {"ok", "boom", "\n"}
FmtResults == UNION {[1..n -> FmtLines] : n \in 0..MaxParts}
FmtInputs == [toolName : FmtNames, result : FmtResults, isError : BOOLEAN]

\* the string a sequence of tokens stands for
RECURSIVE TextOf(_)
TextOf(toks) == IF toks = <<>> THEN "" ELSE Head(toks) \o TextOf(Tail(toks))

FormatInit ==
    /\ fmtIn \in {<<t>> : t \in FmtInputs}
    /\ fmtOut = <<>> /\ events = <<>> /\ MgrIdle

\* formatToolResult is called with the arguments, a first and a second time
DoFormat ==
    /\ fmtIn # <<>> /\ Len(fmtOut) < 2
    /\ fmtOut' = Append(fmtOut, formatToolResult(fmtIn[1].toolName,
                                                 fmtIn[1].result,
                                                 fmtIn[1].isError))
    /\ UNCHANGED <<fmtIn, events, mgrVars>>
    /\ UNCHANGED <<textVars, loopVars, execVars>>

(***************************************************************************)
(* MCPManager (src/src/lib/ai/mcp-manager.ts:11-202).  A path is the       *)
(* sequence of its characters.                                             *)
(***************************************************************************)
\* the pieces the paths of the model are written with
PathPieces == {"/", "\\", ".", "..", "a", "b", "C:"}
PieceChars(p) ==
    CASE p = ".." -> <<".", ".">>
      [] p = "C:" -> <<"C", ":">>
      [] OTHER    -> <<p>>
RECURSIVE PathOf(_)
PathOf(ps) == IF ps = <<>> THEN <<>> ELSE PieceChars(Head(ps)) \o PathOf(Tail(ps))
PathInputs == {PathOf(ps) : ps \in UNION {[1..n -> PathPieces] : n \in 0..MaxPathPieces}}

\* [A-Za-z]
IsLetter(c) == c \in {"a", "b", "C"}
\* [\\/]
IsSep(c) == c \in {"/", "\\"}
\* String.prototype.includes with a one-character argument
Includes(s, c) == \E i \in 1..Len(s) : s[i] = c
\* path.includes('\\') ? '\\' : '/'
SeparatorOf(s) == IF Includes(s, "\\") THEN "\\" ELSE "/"

\* String.prototype.split with a one-character separator: the pieces
\* between the separators, the empty ones included
RECURSIVE Split(_, _)
Split(s, sep) ==
    IF ~Includes(s, sep) THEN <<s>>
    ELSE LET i == CHOOSE k \in 1..Len(s) :
                     s[k] = sep /\ \A j \in 1..(k - 1) : s[j] # sep
         IN <<Slice(s, 1, i - 1)>> \o Split(Slice(s, i + 1, Len(s)), sep)

\* Array.prototype.join
RECURSIVE Join(_, _)
Join(parts, sep) ==
    IF parts = <<>> THEN <<>>
    ELSE IF Len(parts) = 1 THEN parts[1]
    ELSE parts[1] \o <<sep>> \o Join(Tail(parts), sep)

\* replace(/[\\/]+$/, '')
RECURSIVE StripTrailing(_)
StripTrailing(s) ==
    IF s # <<>> /\ IsSep(s[Len(s)]) THEN StripTrailing(Slice(s, 1, Len(s) - 1))
    ELSE s

\* lines 175-183: '..' pops the last resolved part (nothing, when there is
\* none), every other part is pushed
RECURSIVE ResolveParts(_, _)
ResolveParts(parts, resolved) ==
    IF parts = <<>> THEN resolved
    ELSE IF Head(parts) = <<".", ".">>
    THEN ResolveParts(Tail(parts), Slice(resolved, 1, Len(resolved) - 1))
    ELSE ResolveParts(Tail(parts), Append(resolved, Head(parts)))

\* lines 159-201
normalizePath(path) ==
    LET dropped == IF Len(path) >= 2 /\ path[1] = "." /\ IsSep(path[2])
                   THEN Slice(path, 3, Len(path)) ELSE path
        slashed == IF Includes(dropped, "\\")
                   THEN [i \in 1..Len(dropped) |->
                           IF dropped[i] = "/" THEN "\\" ELSE dropped[i]]
                   ELSE dropped
        normalized == StripTrailing(slashed)
        separator == SeparatorOf(normalized)
        parts == SelectSeq(Split(normalized, separator),
                           LAMBDA q : q # <<>> /\ q # <<".">>)
        result == Join(ResolveParts(parts, <<>>), separator)
    IN IF Len(path) >= 2 /\ IsLetter(path[1]) /\ path[2] = ":" THEN result
       ELSE IF /\ path # <<>> /\ path[1] = "/"
               /\ ~(result # <<>> /\ result[1] = "/")
       THEN <<"/">> \o result
       ELSE result

\* lines 93-108
getParentDirectory(path) ==
    LET separator == SeparatorOf(path)
        parts == SelectSeq(Split(path, separator), LAMBDA q : q # <<>>)
    IN IF Len(parts) <= 1 THEN Null
       ELSE Join(Slice(parts, 1, Len(parts) - 1), separator)

\* lines 79-88
buildAllowedDirectories(currentPath, parentPath) ==
    IF parentPath # Null /\ parentPath # <<>> /\ parentPath # currentPath
    THEN <<currentPath, parentPath>>
    ELSE <<currentPath>>

\* the paths the caller passes while the two singletons are watched under
\* every interleaving
MgrPaths == {PathOf(<<"/", "a", "/">>), PathOf(<<"/", "b">>)}

\* lines 51-55: the config passed to mcpService.initialize
Config(allowedDirectories) == [allowedDirectories |-> allowedDirectories]

\* an entry of lifecycle: a service operation of call c was invoked, or
\* its backend call completed, successfully or not
Invoked(which, c) ==
    [op |-> which, phase |-> "invoked", call |-> c, ok |-> TRUE]
Completed(which, c, ok) ==
    [op |-> which, phase |-> "completed", call |-> c, ok |-> ok]

\* line 122
isReadyForDirectory(path) == isInitialized /\ currentDirectory = path
\* line 129
getCurrentDirectory == currentDirectory

MgrInit == MgrFields /\ paths = MgrPaths
PathInit == MgrFields /\ paths \in {{q} : q \in PathInputs}

\* the calls that have not returned; a call keeps in "during" the calls
\* that had not returned when it was made
Pending == {k \in 1..Len(invocations) : invocations[k].at # "done"}

\* an entry of invocations for a call that passes no path
NoPath(kind, at) ==
    [kind |-> kind, currentPath |-> Null, normalizedPath |-> Null,
     parentPath |-> Null, allowedDirectories |-> <<>>,
     at |-> at, result |-> <<>>, during |-> Pending]

\* needsReinit is not tested: every call re-initializes
EnsureStartNoCheck ==
    /\ Len(invocations) < MaxCalls
    /\ \E currentPath \in paths :
         LET normalizedPath == normalizePath(currentPath)
             parentPath == getParentDirectory(normalizedPath)
             c == Len(invocations) + 1
             first == IF isInitialized THEN "shutdown" ELSE "initialize"
         IN /\ invocations' = Append(invocations,
                  [kind |-> "ensure",
                   currentPath |-> currentPath,
                   normalizedPath |-> normalizedPath,
                   parentPath |-> parentPath,
                   allowedDirectories |->
                       buildAllowedDirectories(normalizedPath, parentPath),
                   at |-> first, result |-> <<>>,
                   during |-> Pending])
            /\ lifecycle' = Append(lifecycle, Invoked(first, c))
    /\ UNCHANGED <<isInitialized, currentDirectory, parentDirectories,
                   initialized, config, paths>>
    /\ UNCHANGED <<textVars, loopVars, execVars, fmtVars, events>>

\* lines 20-51: ensureInitialized(currentPath) up to its first await, or to
\* its return when no re-initialization is needed
EnsureStart ==
    /\ Len(invocations) < MaxCalls
    /\ \E currentPath \in paths :
         LET normalizedPath == normalizePath(currentPath)
             parentPath == getParentDirectory(normalizedPath)
             needsReinit == ~isInitialized \/ currentDirectory # normalizedPath
             c == Len(invocations) + 1
             call == [kind |-> "ensure",
                      currentPath |-> currentPath,
                      normalizedPath |-> normalizedPath,
                      parentPath |-> parentPath,
                      allowedDirectories |->
                          buildAllowedDirectories(normalizedPath, parentPath),
                      at |-> "done", result |-> <<TRUE>>,
                      during |-> Pending]
         IN IF ~needsReinit
            THEN /\ invocations' = Append(invocations, call)
                 /\ UNCHANGED lifecycle
            ELSE IF isInitialized
            THEN /\ invocations' = Append(invocations,
                        [call EXCEPT !.at = "shutdown", !.result = <<>>])
                 /\ lifecycle' = Append(lifecycle, Invoked("shutdown", c))
            ELSE /\ invocations' = Append(invocations,
                        [call EXCEPT !.at = "initialize", !.result = <<>>])
                 /\ lifecycle' = Append(lifecycle, Invoked("initialize", c))
    /\ UNCHANGED <<isInitialized, currentDirectory, parentDirectories,
                   initialized, config, paths>>
    /\ UNCHANGED <<textVars, loopVars, execVars, fmtVars, events>>

\* lines 135-137: MCPManager.shutdown() up to its await; it returns at once
\* when the manager is not initialized
ShutdownStart ==
    /\ Len(invocations) < MaxCalls
    /\ LET c == Len(invocations) + 1
       IN IF isInitialized
          THEN /\ invocations' = Append(invocations,
                                        NoPath("shutdown", "shutdown"))
               /\ lifecycle' = Append(lifecycle, Invoked("shutdown", c))
          ELSE /\ invocations' = Append(invocations,
                                        NoPath("shutdown", "done"))
               /\ UNCHANGED lifecycle
    /\ UNCHANGED <<isInitialized, currentDirectory, parentDirectories,
                   initialized, config, paths>>
    /\ UNCHANGED <<textVars, loopVars, execVars, fmtVars, events>>

\* part_000:265-268: MCPService.shutdown() called by another caller than
\* the manager, up to its await
ServiceShutdownStart ==
    /\ Len(invocations) < MaxCalls
    /\ invocations' = Append(invocations,
                             NoPath("serviceShutdown", "shutdown"))
    /\ lifecycle' = Append(lifecycle,
                           Invoked("shutdown", Len(invocations) + 1))
    /\ UNCHANGED <<isInitialized, currentDirectory, parentDirectories,
                   initialized, config, paths>>
    /\ UNCHANGED <<textVars, loopVars, execVars, fmtVars, events>>

\* lines 147-149, part_000:156-158: MCPManager.checkStatus() calls
\* MCPService.isInitialized(), which awaits invoke('is_mcp_initialized')
CheckStatusStart ==
    /\ Len(invocations) < MaxCalls
    /\ invocations' = Append(invocations, NoPath("status", "status"))
    /\ UNCHANGED <<isInitialized, currentDirectory, parentDirectories,
                   initialized, config, lifecycle, paths>>
    /\ UNCHANGED <<textVars, loopVars, execVars, fmtVars, events>>

\* where a call is after the continuation of MCPService.shutdown: the
\* manager's calls resume after their await in a later microtask, a
\* shutdown called on the service alone is over
AfterShutdown(call) ==
    IF call.kind = "serviceShutdown" THEN "done" ELSE "resume"

\* part_000:268-272: invoke('shutdown_mcp') resolves, the service clears
\* its fields and shutdown returns
ShutdownResolves ==
    /\ \E c \in 1..Len(invocations) :
         /\ invocations[c].at = "shutdown"
         /\ invocations' =
               [invocations EXCEPT ![c].at = AfterShutdown(invocations[c])]
         /\ lifecycle' = Append(lifecycle, Completed("shutdown", c, TRUE))
    /\ initialized' = FALSE
    /\ config' = Null
    /\ UNCHANGED <<isInitialized, currentDirectory, parentDirectories, paths>>
    /\ UNCHANGED <<textVars, loopVars, execVars, fmtVars, events>>

\* part_000:273-275: invoke('shutdown_mcp') rejects, the service logs it
\* and shutdown returns
ShutdownRejects ==
    /\ \E c \in 1..Len(invocations) :
         /\ invocations[c].at = "shutdown"
         /\ invocations' =
               [invocations EXCEPT ![c].at = AfterShutdown(invocations[c])]
         /\ lifecycle' = Append(lifecycle, Completed("shutdown", c, FALSE))
    /\ UNCHANGED <<isInitialized, currentDirectory, parentDirectories,
                   initialized, config, paths>>
    /\ UNCHANGED <<textVars, loopVars, execVars, fmtVars, events>>

\* lines 47-51: ensureInitialized resumes after `await
\* mcpService.shutdown()` and calls mcpService.initialize, which invokes
\* 'initialize_mcp'
EnsureResumes ==
    /\ \E c \in 1..Len(invocations) :
         /\ invocations[c].kind = "ensure"
         /\ invocations[c].at = "resume"
         /\ invocations' = [invocations EXCEPT ![c].at = "initialize"]
         /\ lifecycle' = Append(lifecycle, Invoked("initialize", c))
    /\ UNCHANGED <<isInitialized, currentDirectory, parentDirectories,
                   initialized, config, paths>>
    /\ UNCHANGED <<textVars, loopVars, execVars, fmtVars, events>>

\* lines 137-140: MCPManager.shutdown() resumes after `await
\* mcpService.shutdown()` and clears the manager's fields
ShutdownReturns ==
    /\ \E c \in 1..Len(invocations) :
         /\ invocations[c].kind = "shutdown"
         /\ invocations[c].at = "resume"
         /\ invocations' = [invocations EXCEPT ![c].at = "done"]
    /\ isInitialized' = FALSE
    /\ currentDirectory' = Null
    /\ parentDirectories' = {}
    /\ UNCHANGED <<initialized, config, lifecycle, paths>>
    /\ UNCHANGED <<textVars, loopVars, execVars, fmtVars, events>>

\* where a checkStatus call is once MCPService.isInitialized has returned
\* the answer and checkStatus has not resumed from its await
Answered(answer) == IF answer THEN "answeredTrue" ELSE "answeredFalse"

\* part_000:158-160: invoke('is_mcp_initialized') resolves with the
\* backend's answer, the service keeps it and isInitialized returns it
IsInitializedResolves ==
    /\ \E c \in 1..Len(invocations), answer \in BOOLEAN :
         /\ invocations[c].at = "status"
         /\ invocations' = [invocations EXCEPT ![c].at = Answered(answer)]
         /\ initialized' = answer
    /\ UNCHANGED <<isInitialized, currentDirectory, parentDirectories,
                   config, lifecycle, paths>>
    /\ UNCHANGED <<textVars, loopVars, execVars, fmtVars, events>>

\* part_000:161-164: invoke('is_mcp_initialized') rejects, isInitialized
\* returns false
IsInitializedRejects ==
    /\ \E c \in 1..Len(invocations) :
         /\ invocations[c].at = "status"
         /\ invocations' = [invocations EXCEPT ![c].at = Answered(FALSE)]
    /\ UNCHANGED <<isInitialized, currentDirectory, parentDirectories,
                   initialized, config, lifecycle, paths>>
    /\ UNCHANGED <<textVars, loopVars, execVars, fmtVars, events>>

\* line 149: checkStatus resumes after `await mcpService.isInitialized()`
\* and returns the answer
CheckStatusReturns ==
    /\ \E c \in 1..Len(invocations), answer \in BOOLEAN :
         /\ invocations[c].at = Answered(answer)
         /\ invocations' = [invocations EXCEPT ![c].at = "done",
                                                ![c].result = <<answer>>]
    /\ UNCHANGED <<isInitialized, currentDirectory, parentDirectories,
                   initialized, config, lifecycle, paths>>
    /\ UNCHANGED <<textVars, loopVars, execVars, fmtVars, events>>

\* part_000:126-138: invoke('initialize_mcp') resolves with success, the
\* service keeps the config and awaits refreshTools
InitializeResolves ==
    /\ \E c \in 1..Len(invocations) :
         /\ invocations[c].at = "initialize"
         /\ invocations' = [invocations EXCEPT ![c].at = "refresh"]
         /\ lifecycle' = Append(lifecycle, Completed("initialize", c, TRUE))
         /\ config' = Config(invocations[c].allowedDirectories)
    /\ initialized' = TRUE
    /\ UNCHANGED <<isInitialized, currentDirectory, parentDirectories, paths>>
    /\ UNCHANGED <<textVars, loopVars, execVars, fmtVars, events>>

\* part_000:139-150: invoke('initialize_mcp') resolves with success false,
\* or rejects; mcpService.initialize returns a response without success
InitializeFails ==
    /\ \E c \in 1..Len(invocations) :
         /\ invocations[c].at = "initialize"
         /\ invocations' = [invocations EXCEPT ![c].at = "failed"]
         /\ lifecycle' = Append(lifecycle, Completed("initialize", c, FALSE))
    /\ UNCHANGED <<isInitialized, currentDirectory, parentDirectories,
                   initialized, config, paths>>
    /\ UNCHANGED <<textVars, loopVars, execVars, fmtVars, events>>

\* lines 51-68: ensureInitialized resumes after `await
\* mcpService.initialize(...)` with a response without success and
\* returns false
EnsureReturnsFalse ==
    /\ \E c \in 1..Len(invocations) :
         /\ invocations[c].at = "failed"
         /\ invocations' = [invocations EXCEPT ![c].at = "done",
                                                ![c].result = <<FALSE>>]
    /\ UNCHANGED <<isInitialized, currentDirectory, parentDirectories,
                   initialized, config, lifecycle, paths>>
    /\ UNCHANGED <<textVars, loopVars, execVars, fmtVars, events>>

\* part_000:138-143, lines 57-64: refreshTools is over (it catches its own
\* errors), mcpService.initialize returns the response, the manager takes
\* the directory and ensureInitialized returns true
InitializeReturns ==
    /\ \E c \in 1..Len(invocations) :
         /\ invocations[c].at = "refresh"
         /\ invocations' = [invocations EXCEPT ![c].at = "done",
                                                ![c].result = <<TRUE>>]
         /\ isInitialized' = TRUE
         /\ currentDirectory' = invocations[c].normalizedPath
         /\ parentDirectories' =
               IF invocations[c].parentPath \notin {Null, <<>>}
               THEN parentDirectories \cup {invocations[c].parentPath}
               ELSE parentDirectories
    /\ UNCHANGED <<initialized, config, lifecycle, paths>>
    /\ UNCHANGED <<textVars, loopVars, execVars, fmtVars, events>>

MgrNext ==
    \/ EnsureStart \/ ShutdownStart \/ ServiceShutdownStart
    \/ CheckStatusStart
    \/ ShutdownResolves \/ ShutdownRejects
    \/ EnsureResumes \/ ShutdownReturns
    \/ IsInitializedResolves \/ IsInitializedRejects \/ CheckStatusReturns
    \/ InitializeResolves \/ InitializeFails \/ EnsureReturnsFalse
    \/ InitializeReturns

LoopNext ==
    \/ Request \/ BudgetExceeded \/ InferenceReturns \/ InferenceFails
    \/ Inspect \/ ToolStart \/ ToolReturnsResult \/ ToolRaises
    \/ AppendHistory \/ Finish

Init == TextIdle /\ LoopInit /\ ExecIdle /\ AuxIdle
Next == LoopNext
Spec == Init /\ [][Next]_vars

\* the invocation under fair scheduling: every line of the loop is run when
\* it is reached, and every inference call and every tool execution
\* that was started completes, by resolving or by rejecting
\* (a tool execution may take any time but ends).  Every step of Next
\* changes pc and a step of Next is possible wherever pc is not "done" or
\* "aborted", so a step of Next is a step of Advance and Advance is enabled
\* exactly where Next is: the condition is weak fairness of Next, with an
\* enabling condition that is read off pc.
PcValues == {"idle", "loop", "requesting", "inspecting", "executing",
             "awaitTool", "post", "append", "finish", "done", "aborted"}
Advance == pc \notin {"idle", "done", "aborted"} /\ pc' \in PcValues \ {pc}
SpecFair == Init /\ [][Next]_vars /\ WF_pc(Advance)

\* the invocation of the current version with its callbacks
InitCb == TextIdle /\ LoopInit /\ ver = "current" /\ ExecIdle /\ AuxIdle
SpecCb == InitCb /\ [][CbNext]_vars

\* calls of ensureInitialized for the paths of MgrPaths, of
\* MCPManager.shutdown, of MCPManager.checkStatus and of MCPService.shutdown,
\* overlapping or not
InitMgr == MgrInit /\ TextIdle /\ LoopIdle /\ ExecIdle
             /\ fmtIn = <<>> /\ fmtOut = <<>> /\ events = <<>>
SpecMgr == InitMgr /\ [][MgrNext]_vars

\* ensureInitialized calls for one path of PathInputs; with one path the
\* manager is never initialized for another directory, so no call reaches
\* the shutdown of line 47
PathNext ==
    \/ EnsureStart \/ InitializeResolves \/ InitializeFails
    \/ EnsureReturnsFalse \/ InitializeReturns
InitPath == PathInit /\ TextIdle /\ LoopIdle /\ ExecIdle
              /\ fmtIn = <<>> /\ fmtOut = <<>> /\ events = <<>>
SpecPath == InitPath /\ [][PathNext]_vars

\* the parser's functions applied to the texts of PieceSeqs
InitText == TextInit /\ LoopIdle /\ ExecIdle /\ AuxIdle
SpecText == InitText /\ [][TextNext]_vars

\* the parser's functions applied to the texts of ShapeSeqs
InitShape == ShapeInit /\ LoopIdle /\ ExecIdle /\ AuxIdle
SpecShape == InitShape /\ [][TextNext]_vars

\* formatToolResult applied to every tool name, result text and error flag
\* of FmtInputs
InitFormat == FormatInit /\ TextIdle /\ LoopIdle /\ ExecIdle
SpecFormat == InitFormat /\ [][DoFormat]_vars

\* MCPService.executeTool against every behaviour of the backend
InitExec == ExecInit /\ TextIdle /\ LoopIdle /\ AuxIdle
SpecExec == InitExec /\ [][ExecNext]_vars
(***************************************************************************)
(* Properties of runInferenceWithTools, checked under Spec.                *)
(***************************************************************************)
\* the response holds no native tool call and its text yields no record:
\* detectToolCall is false, or extractToolCalls returns the empty list
YieldsNoCall(v, r) ==
    /\ Len(r.toolCalls) = 0
    /\ \A nows \in NowsFor(v, r.content) :
          \/ ~detectToolCallOf(v, r.content)
          \/ extractToolCallsOf(v, r.content, nows) = <<>>

\* the executions started in iteration it, in order
ExecutedIn(it) == SelectSeq(execLog, LAMBDA e : e.iteration = it)

\* C1: a response with no native tool call whose text yields no tool-call
\* record is returned as the final response: inspecting it leads to the
\* return of that very response, with no tool executed and no inference
\* request issued on the way, and nothing happens after the return; when
\* the first response is such a response the whole invocation has issued
\* exactly one inference request.
NoCallIsFinal ==
    /\ [][ /\ (pc = "inspecting" /\ YieldsNoCall(ver, response[1]))
               => /\ pc' = "finish"
                  /\ finalResponse' = response
                  /\ requests' = requests /\ execLog' = execLog
           /\ pc = "finish"
               => /\ pc' = "done"
                  /\ returned' = <<[content |-> response[1].content,
                                    toolCalls |-> response[1].toolCalls,
                                    toolExecutions |-> returned'[1].toolExecutions]>>
                  /\ requests' = requests /\ execLog' = execLog
           /\ pc = "done" => FALSE ]_vars
    /\ []((/\ pc \in {"inspecting", "finish", "done"} /\ iterations = 1
           /\ YieldsNoCall(ver, response[1]))
          => Len(requests) = 1 /\ execLog = <<>>)

\* C1 witness: the first response carries both wrapper markers but no
\* parsable call; it was returned after one request and no execution
NoCallIsFinalWitness ==
    /\ pc = "done" /\ iterations = 1
    /\ YieldsNoCall(ver, response[1])
    /\ detectToolCallOf(ver, response[1].content)
    /\ returned[1].content = response[1].content
    /\ Len(requests) = 1 /\ execLog = <<>>

\* every response received so far led to at least one tool execution
EveryResponseRequested ==
    \A it \in 1..iterations : ExecutedIn(it) # <<>>

InRequestOrder ==
    \A j, k \in 1..Len(execLog) :
        j < k => execLog[j].iteration <= execLog[k].iteration

\* C2: when every model response requests at least one tool call the
\* invocation ends with the budget error and with nothing else; the error
\* is raised after exactly MAX_TOOL_ITERATIONS inference requests, never
\* is a further request issued, the tool calls of all MAX_TOOL_ITERATIONS
\* iterations have been executed to their end in request order before it
\* (one accumulator record per call in the current version), and no
\* response is returned.
BudgetAfterExactlyMax ==
    /\ Len(requests) <= MAX_TOOL_ITERATIONS
    /\ (pc \in {"done", "aborted"} /\ EveryResponseRequested)
          => error = BudgetError
    /\ (pc = "loop" /\ iterations < MAX_TOOL_ITERATIONS) => error = ""
    /\ error = BudgetError
          => /\ pc = "aborted"
             /\ Len(requests) = MAX_TOOL_ITERATIONS
             /\ iterations = MAX_TOOL_ITERATIONS
             /\ EveryResponseRequested
             /\ InRequestOrder
             /\ \A k \in 1..Len(execLog) : execLog[k].outcome # "executing"
             /\ ver = "current" =>
                   /\ Len(allToolExecutions) = Len(execLog)
                   /\ \A k \in 1..Len(execLog) :
                         /\ allToolExecutions[k].toolName = execLog[k].name
                         /\ allToolExecutions[k].arguments = execLog[k].arguments
             /\ returned = <<>> /\ finalResponse = <<>>

\* C2 witness: five responses of one call each, five executions, then the
\* budget error
BudgetAfterExactlyMaxWitness ==
    /\ error = BudgetError /\ ver = "current"
    /\ Len(requests) = 5
    /\ Len(execLog) = 5 /\ Len(allToolExecutions) = 5
    /\ \A it \in 1..5 : execLog[it].iteration = it

\* the texts a failed execution is reported with
ErrorTexts ==
    {r.content : r \in {x \in ToolReturns : x.isError}}
    \cup {<<"Error: ", m>> : m \in ToolErrors}

\* C3: a tool execution that fails, by returning isError = true or by
\* raising, does not abort the invocation: the step that handles the
\* failure appends a user-role tool-result message with the error marker
\* and the error text for that call and moves on to the next call of the
\* response or to the history update; every call of the response is
\* executed, the messages reach the next request, the next request can be
\* issued while the budget lasts, and the invocation only ever aborts on
\* the budget, on a failed inference call or on undecodable native
\* arguments.
ToolFailureRecovered ==
    /\ [][ (pc = "awaitTool" /\ failures' = failures + 1)
             => /\ pc' = IF idx < Len(toolCalls) THEN "executing" ELSE "append"
                /\ idx' = idx + 1
                /\ error' = ""
                /\ Len(toolResults') = Len(toolResults) + 1
                /\ SubSeq(toolResults', 1, Len(toolResults)) = toolResults
                /\ toolResults'[Len(toolResults')].role = "user"
                /\ \E t \in ErrorTexts :
                      toolResults'[Len(toolResults')].content =
                         formatToolResult(StringChars(toolCalls[idx].name), t, TRUE)
         ]_vars
    /\ [](pc = "executing" => idx <= Len(toolCalls) /\ ENABLED ToolStart)
    /\ [](pc = "append"
            => /\ Len(toolResults) = Len(toolCalls)
               /\ Len(ExecutedIn(iterations)) = Len(toolCalls))
    /\ [](pc = "loop" /\ iterations >= 1
            => /\ Len(messages) > Len(toolResults)
               /\ SubSeq(messages, Len(messages) - Len(toolResults) + 1,
                         Len(messages)) = toolResults
               /\ iterations < MAX_TOOL_ITERATIONS => ENABLED Request)
    /\ [](pc = "aborted"
            => error \in {BudgetError, "inference failed", "SyntaxError"})

\* C3 witness: the first of two calls failed, the second one ran, and the
\* next inference request carries both tool-result messages
ToolFailureRecoveredWitness ==
    /\ pc = "requesting" /\ iterations = 2 /\ failures = 1
    /\ Len(execLog) = 2
    /\ execLog[1].outcome = "error" /\ execLog[2].outcome = "success"
    /\ Len(requests[2]) = Len(InitialMessages) + 3
    /\ \E t \in ErrorTexts :
          requests[2][Len(InitialMessages) + 2].content =
             formatToolResult(StringChars(execLog[1].name), t, TRUE)

\* C4: when a response carries a non-empty native tool-call list, the
\* calls of the iteration are the native calls with their arguments
\* decoded, in list order, the executions of the iteration are those calls
\* in that order, and detectToolCall was not applied to the response text
\* in the iteration.
NativeCallsOnly ==
    (/\ ver = "current"
     /\ pc \in {"executing", "awaitTool", "append"}
     /\ Len(response[1].toolCalls) > 0)
    => LET native == response[1].toolCalls
           mine == ExecutedIn(iterations)
       IN /\ iterations \notin scanned
          /\ Len(toolCalls) = Len(native)
          /\ \A k \in 1..Len(native) :
                /\ toolCalls[k].id = native[k].id
                /\ toolCalls[k].name = native[k].name
                /\ JSONparse(native[k].arguments).ok
                /\ toolCalls[k].arguments = JSONvalue(native[k].arguments)
          /\ Len(mine) = (IF pc = "executing" THEN idx - 1
                          ELSE IF pc = "awaitTool" THEN idx
                          ELSE Len(native))
          /\ \A k \in 1..Len(mine) :
                /\ mine[k].name = native[k].name
                /\ mine[k].arguments = JSONvalue(native[k].arguments)

\* C4 witness: the response text holds a wrapped call of another tool, and
\* the native call is the one that was executed
NativeCallsOnlyWitness ==
    /\ ver = "current" /\ pc = "append"
    /\ Len(response[1].toolCalls) = 1
    /\ IncludesOpen(response[1].content) /\ IncludesClose(response[1].content)
    /\ \A nows \in NowsFor(ver, response[1].content) :
          /\ Len(extractToolCalls(response[1].content, nows)) = 1
          /\ extractToolCalls(response[1].content, nows)[1].name
                # response[1].toolCalls[1].name
    /\ execLog[Len(execLog)].name = response[1].toolCalls[1].name
    /\ execLog[Len(execLog)].iteration = iterations

\* C5: when the invocation returns, the trace attached to the returned
\* message is the sequence of the records of every tool call executed in
\* the invocation, one record per execution, in execution order, earlier
\* iterations first.
TraceIsEveryExecution ==
    (pc = "done" /\ ver = "current")
    => LET trace == returned[1].toolExecutions
       IN /\ Len(trace) = Len(execLog)
          /\ \A k \in 1..Len(execLog) :
                /\ trace[k].toolName = execLog[k].name
                /\ trace[k].arguments = execLog[k].arguments
                /\ trace[k].status = execLog[k].outcome
          /\ InRequestOrder

\* C5 witness: three executions over two iterations, one of them failed,
\* all three in the returned trace
TraceIsEveryExecutionWitness ==
    /\ pc = "done" /\ ver = "current" /\ iterations = 3
    /\ Len(returned[1].toolExecutions) = 3
    /\ execLog[1].iteration = 1 /\ execLog[3].iteration = 2
    /\ \E k \in 1..3 : returned[1].toolExecutions[k].status = "error"
(***************************************************************************)
(* Properties of the notation parser, checked under SpecText.              *)
(***************************************************************************)
\* C6: removeToolCallTags is idempotent: applied to its own result it
\* returns that result unchanged, for every text, also when the first
\* application joined the text around a removed span or object into a new
\* wrapper pair or a new tool-call object.
StripIdempotent == op = "strip2" => stripped = prev

\* the pieces of a text made of prose and well-formed wrapped tool calls
SpanPieces == {"spanLs", "spanRm", "spanQ"}
WellFormedPieces == {"prose", "ws"} \cup SpanPieces
IsWellFormed(ps) == \A k \in 1..Len(ps) : ps[k] \in WellFormedPieces

\* the tool call written inside a wrapped piece
Embedded(p) ==
    CASE p = "spanLs" -> [id |-> <<"\"c1\"">>, name |-> <<"\"ls\"">>,
                          arguments |-> <<TokLB, TokRB>>]
      [] p = "spanRm" -> [id |-> Undefined, name |-> <<"\"rm\"">>,
                          arguments |-> <<TokLB, TokKV, TokRB>>]
      [] OTHER        -> [id |-> Undefined, name |-> <<"\"rm\"">>,
                          arguments |-> <<TokLB, TokStrOpen, TokCloseA, TokTail,
                                          TokQ, TokRB>>]

SpansOf(ps) == SelectSeq(ps, LAMBDA p : p \in SpanPieces)
ProseOf(ps) == Flatten(SelectSeq(ps, LAMBDA p : p \notin SpanPieces))

\* C7: for a text made of prose and well-formed wrapped tool calls,
\* extractToolCalls returns one record per wrapped call, in order, with the
\* name and the arguments written in it and with its id when it has one;
\* detectToolCall returns true when there is a wrapped call; and
\* removeToolCallTags returns the prose around the wrapped calls, trimmed.
WrappedRoundTrip ==
    IsWellFormed(src)
    => /\ op = "extract"
            => /\ Len(extracted) = Len(SpansOf(src))
               /\ \A k \in 1..Len(extracted) :
                     LET e == Embedded(SpansOf(src)[k])
                     IN /\ extracted[k].name = e.name
                        /\ extracted[k].arguments = e.arguments
                        /\ e.id # Undefined => extracted[k].id = e.id
       /\ (op = "detect" /\ SpansOf(src) # <<>>) => detected
       /\ op = "strip" => stripped = Trim(ProseOf(src))

NoMarkers(t) == ~IncludesOpen(t) /\ ~IncludesClose(t)

\* the raw object of the piece "callLs": string id, string name, object
\* arguments, no nested object in the arguments
RawRecord == [id |-> <<"\"c1\"">>, name |-> <<"\"ls\"">>,
              arguments |-> <<TokLB, TokRB>>]

\* the fallback phase would accept a substring of t as a tool call
FallbackAccepts(t) == ExtractRaw(t, jsonObjectRegex(t, 1), 1, <<>>) # <<>>

\* C8: for a text without wrapper markers that contains a raw tool-call
\* object, extractToolCalls returns a record with the id, name and
\* arguments of that object, and removeToolCallTags returns a text from
\* which the object is gone and in which the fallback phase accepts no
\* substring as a tool call.
RawObjectRecovered ==
    (/\ tver = "current" /\ NoMarkers(text)
     /\ \E k \in 1..Len(src) : src[k] = "callLs")
    => /\ op = "extract"
            => \E k \in 1..Len(extracted) : extracted[k] = RawRecord
       /\ op = "strip"
            => /\ \A i \in 1..Len(stripped) : ~OccursAt(stripped, CallLs, i)
               /\ ~FallbackAccepts(stripped)

\* an opening marker followed later by a closing marker
PairedWrapper(t) ==
    \E i, j \in 1..Len(t) : IsOpenAt(t, i) /\ IsCloseAt(t, j) /\ i < j

\* C9: detectToolCall returns true exactly when the text contains an
\* opening wrapper marker followed later by a closing one, or matches the
\* raw-object pattern; for every other text it returns false.
DetectIffPairedOrRaw ==
    op = "detect" => detected = (PairedWrapper(text) \/ rawJsonPattern(text))

(***************************************************************************)
(* Properties of MCPService.executeTool, checked under SpecExec.           *)
(***************************************************************************)
\* the capability call failed: it was rejected, its value was malformed, or
\* the response reports a failure (success = false, is_error = true, or an
\* error text)
BackendFailed(b) ==
    \/ b.kind \in {"reject", "malformed"}
    \/ /\ b.kind = "resolve"
       /\ \/ ~b.resp.success
          \/ b.resp.is_error
          \/ b.resp.error # Undefined

\* C10: executeTool never raises, and for every failure of the capability
\* call the outcome it returns has isError = true and a content that
\* describes the failure (a content that is not empty).
FailureBecomesErrorOutcome ==
    (ephase = "returned" /\ BackendFailed(ebackend[1]))
    => /\ eresult # <<>>
       /\ eresult[1].isError
       /\ eresult[1].content # <<>>

(***************************************************************************)
(* Durations, checked under SpecExec.                                      *)
(***************************************************************************)
\* C11: every outcome returned by executeTool carries an executionTimeMs,
\* also the outcome built on the failure path, and every record the loop
\* adds to the accumulator carries an executionTimeMs, also the record of
\* an execution that raised.
EveryOutcomeTimed ==
    /\ ephase = "returned" => eresult[1].executionTimeMs # Undefined
    /\ \A k \in 1..Len(allToolExecutions) :
          allToolExecutions[k].executionTimeMs # Undefined

(***************************************************************************)
(* Order and history of one invocation, checked under Spec.                *)
(***************************************************************************)
\* the executions handed to the executor that have not ended
InFlight == {k \in 1..Len(execLog) : execLog[k].outcome = "executing"}

\* C12: tool calls are executed one at a time in extraction order: an
\* execution is in flight only while the loop awaits it, it is the one
\* started last, a new execution starts only when none is in flight, the
\* executions of the iteration are the extracted calls in their order, and
\* no inference request is issued while an execution is in flight.
OneExecutionAtATime ==
    /\ [](/\ Cardinality(InFlight) <= 1
          /\ InFlight # {} <=> pc = "awaitTool"
          /\ InFlight \subseteq {Len(execLog)})
    /\ [](pc \in {"executing", "awaitTool", "append"}
            => LET mine == ExecutedIn(iterations)
               IN /\ Len(mine) = (IF pc = "executing" THEN idx - 1
                                  ELSE IF pc = "awaitTool" THEN idx
                                  ELSE Len(toolCalls))
                  /\ \A k \in 1..Len(mine) :
                        /\ mine[k].name = toolCalls[k].name
                        /\ mine[k].arguments = toolCalls[k].arguments)
    /\ [][ /\ Len(execLog') > Len(execLog)
              => /\ InFlight = {}
                 /\ Len(execLog') = Len(execLog) + 1
                 /\ SubSeq(execLog', 1, Len(execLog)) = execLog
           /\ requests' # requests => InFlight = {} /\ InFlight' = {}
         ]_vars

\* C12 witness: the second call of a response is in flight and the first
\* one has ended
OneExecutionAtATimeWitness ==
    /\ pc = "awaitTool" /\ idx = 2 /\ Len(toolCalls) = 2
    /\ Len(execLog) = 2
    /\ execLog[1].outcome \in {"success", "error"}
    /\ execLog[2].outcome = "executing"
    /\ execLog[1].name # execLog[2].name

\* s is a prefix of t
IsPrefix(s, t) == Len(s) <= Len(t) /\ SubSeq(t, 1, Len(s)) = s

\* C13: the conversation of one invocation only grows at its end: the
\* first inference request carries the caller's messages, and the messages
\* of every request are an exact prefix of the messages of the next one.
HistoryAppendOnly ==
    /\ requests # <<>> => requests[1] = InitialMessages
    /\ \A k \in 1..(Len(requests) - 1) : IsPrefix(requests[k], requests[k + 1])
    /\ requests # <<>> => IsPrefix(requests[Len(requests)], messages)

\* C13 witness: three requests, each longer than the one before, after an
\* iteration of two calls
HistoryAppendOnlyWitness ==
    /\ Len(requests) = 3
    /\ Len(requests[1]) = 1
    /\ Len(requests[2]) = 4
    /\ Len(requests[3]) > 4
    /\ requests[3][1] = InitialMessages[1]

\* the tool-result message the history holds for an ended execution: the
\* content the execution returned, or "Error: " and the message of the
\* error it raised, formatted with the call's name
ResultMessageOf(e) ==
    Message("user",
            formatToolResult(StringChars(e.name),
                             IF e.raised THEN <<"Error: ">> \o e.content
                             ELSE e.content,
                             e.outcome = "error"))

\* C14: after a completed tool iteration the messages appended to the
\* conversation in it are one assistant message, whose content is the
\* response text with its tool calls removed or "(Using tools...)" when
\* nothing is left, followed by one user-role tool-result message for each
\* extracted call, in extraction order, formatted from the call's name and
\* the content and error flag of its outcome.
IterationAppendsItsMessages ==
    (pc = "loop" /\ iterations >= 1)
    => LET mine == ExecutedIn(iterations)
           shown == removeToolCallTagsOf(ver, response[1].content)
           base == requests[iterations]
       IN /\ Len(mine) = Len(toolCalls)
          /\ \A k \in 1..Len(mine) : mine[k].name = toolCalls[k].name
          /\ Len(messages) = Len(base) + 1 + Len(mine)
          /\ SubSeq(messages, 1, Len(base)) = base
          /\ messages[Len(base) + 1] =
                Message("assistant",
                        IF shown = <<>> THEN <<TokUsing>> ELSE shown)
          /\ \A k \in 1..Len(mine) :
                messages[Len(base) + 1 + k] = ResultMessageOf(mine[k])

\* C14 witness: a response that is nothing but two wrapped calls; the
\* first execution raised, the second returned, and the history holds the
\* placeholder and the two tool-result messages
IterationAppendsItsMessagesWitness ==
    /\ pc = "loop" /\ iterations = 1
    /\ Len(messages) = 4
    /\ messages[2].content = <<TokUsing>>
    /\ execLog[1].raised /\ execLog[2].outcome = "success"
    /\ messages[3] = ResultMessageOf(execLog[1])
    /\ messages[4] = ResultMessageOf(execLog[2])
    /\ messages[3] # messages[4]

\* C15: malformed tool-call input in a response never reaches the caller
\* as an error: whatever the response holds, a wrapped span that does not
\* parse or lacks name or arguments, or a native tool call whose arguments
\* string cannot be decoded, handling the response does not abort the
\* invocation.
MalformedInputRecovered ==
    [][pc = "inspecting" => pc' # "aborted" /\ error' = ""]_vars

\* C16: when the inference call of an iteration fails, the invocation
\* fails with that error: a step that follows a request and does not
\* hand over a response aborts the invocation with the error of the call,
\* returns nothing and leaves the requests and the executions as they are;
\* after it no step is taken, so no request is issued and no tool is
\* executed.
InferenceFailureAborts ==
    /\ [][ /\ (pc = "requesting" /\ pc' # "inspecting")
              => /\ pc' = "aborted"
                 /\ error' = "inference failed"
                 /\ returned' = <<>> /\ finalResponse' = finalResponse
                 /\ requests' = requests /\ execLog' = execLog
           /\ error = "inference failed" => FALSE ]_vars
    /\ [](error = "inference failed"
            => pc = "aborted" /\ returned = <<>> /\ InFlight = {})

\* C16 witness: the second inference call failed, after the tool call of
\* the first response had been executed
InferenceFailureAbortsWitness ==
    /\ pc = "aborted" /\ error = "inference failed"
    /\ iterations = 2 /\ Len(requests) = 2
    /\ Len(execLog) >= 1
    /\ returned = <<>>

(***************************************************************************)
(* Termination, checked under SpecFair.                                    *)
(***************************************************************************)
\* C17: when every inference call and every tool execution completes, the
\* invocation terminates: it eventually returns a response or raises; and
\* in every state the number of inference requests issued is the number of
\* iterations begun and at most MAX_TOOL_ITERATIONS, whatever the
\* responses are.
InvocationTerminates ==
    /\ <>(pc \in {"done", "aborted"})
    /\ [](/\ Len(requests) = iterations
          /\ iterations <= MAX_TOOL_ITERATIONS)

\* C17 witness: the invocation returned the response to its fifth request,
\* after four iterations with tool calls
InvocationTerminatesWitness ==
    /\ pc = "done" /\ Len(requests) = MAX_TOOL_ITERATIONS
    /\ \A it \in 1..(MAX_TOOL_ITERATIONS - 1) : ExecutedIn(it) # <<>>
    /\ returned # <<>>

(***************************************************************************)
(* The two phases of extractToolCalls, checked under SpecText.             *)
(***************************************************************************)
\* the pieces of a text made of prose, well-formed wrapped calls without a
\* marker in their strings, and raw objects outside any wrapper
TwoPhasePieces == {"prose", "ws", "spanLs", "spanRm", "callLs", "callRm"}
RawOutside(ps) == SelectSeq(ps, LAMBDA p : p = "callLs")

\* C18: the raw-JSON fallback phase contributes only when the wrapped phase
\* found nothing: in a text of prose, wrapped calls and raw objects outside
\* the wrappers, when there is a wrapped call the result is exactly the
\* records of the wrapped calls and no raw object outside a wrapper adds a
\* record; when there is none the result is the records of the raw
\* tool-call objects; a result never holds records of both kinds.
FallbackOnlyWhenNoWrapped ==
    (/\ tver = "current" /\ op = "extract"
     /\ \A k \in 1..Len(src) : src[k] \in TwoPhasePieces)
    => IF SpansOf(src) # <<>>
       THEN /\ Len(extracted) = Len(SpansOf(src))
            /\ \A k \in 1..Len(extracted) :
                  /\ extracted[k].name = Embedded(SpansOf(src)[k]).name
                  /\ extracted[k].arguments = Embedded(SpansOf(src)[k]).arguments
       ELSE /\ Len(extracted) = Len(RawOutside(src))
            /\ \A k \in 1..Len(extracted) : extracted[k] = RawRecord

\* C18 witness: a raw tool-call object stands before a wrapped call of
\* another tool, and the result is the record of the wrapped call alone
FallbackOnlyWhenNoWrappedWitness ==
    /\ tver = "current" /\ op = "extract"
    /\ src = <<"callLs", "prose", "spanRm">>
    /\ Len(extracted) = 1
    /\ extracted[1].name = <<"\"rm\"">>
    /\ FallbackAccepts(text)

\* wrapped spans that are not tool calls: the inner text does not parse,
\* the object has no arguments, the object has no name
MalformedPieces == {"spanBad", "spanNoArgs", "spanNoName"}

\* a text of prose and wrapped spans, at least one of them malformed
HasMalformedSpan(ps) ==
    /\ \A k \in 1..Len(ps) : ps[k] \in WellFormedPieces \cup MalformedPieces
    /\ \E k \in 1..Len(ps) : ps[k] \in MalformedPieces

\* C19: a wrapped span whose inner text does not parse as an object, or
\* parses without a name or without arguments, is dropped and its siblings
\* are not affected: for a text of prose and wrapped spans the result of
\* extractToolCalls is exactly the records of the well-formed spans, in
\* order.
MalformedSpanDropped ==
    (op = "extract" /\ HasMalformedSpan(src))
    => /\ Len(extracted) = Len(SpansOf(src))
       /\ \A k \in 1..Len(extracted) :
             /\ extracted[k].name = Embedded(SpansOf(src)[k]).name
             /\ extracted[k].arguments = Embedded(SpansOf(src)[k]).arguments

(***************************************************************************)
(* Order of the records, checked under SpecText.                           *)
(***************************************************************************)
\* the spans of the text a record can come from, each with the position it
\* starts at and what its text parses to: the wrapper spans ...
WrappedCandidates(v, content) ==
    LET ms == xmlRegex(content, 1)
    IN [k \in 1..Len(ms) |->
          [s |-> ms[k].s,
           p |-> JSONparse(IF v = "legacy" THEN Trim(Inner(content, ms[k]))
                           ELSE JsonMatch(Trim(Inner(content, ms[k]))))]]

\* ... and the object-shaped substrings of the fallback phase
RawCandidates(content) ==
    LET ms == jsonObjectRegex(content, 1)
    IN [k \in 1..Len(ms) |->
          [s |-> ms[k].s,
           p |-> JSONparse(Slice(content, ms[k].s, ms[k].e - 1))]]

\* the records are the name and arguments of some of the candidates, taken
\* in the order in which the candidates start in the text
InStartOrder(recs, cands) ==
    \E f \in [1..Len(recs) -> 1..Len(cands)] :
       /\ \A j, k \in 1..Len(recs) : j < k => cands[f[j]].s < cands[f[k]].s
       /\ \A k \in 1..Len(recs) :
             /\ cands[f[k]].p.ok
             /\ recs[k].name = cands[f[k]].p.f.name
             /\ recs[k].arguments = cands[f[k]].p.f.arguments

\* equal in length, and position by position in name and arguments
SameCalls(a, b) ==
    /\ Len(a) = Len(b)
    /\ \A k \in 1..Len(a) :
          a[k].name = b[k].name /\ a[k].arguments = b[k].arguments

\* the synthesized id of the call's first record coincides with an id the
\* model wrote in the text: at that reading of the clock two records of the
\* call carry one id, at another reading they do not
IdCoincides(calls) ==
    \E j, k \in 1..Len(calls) : j < k /\ calls[j].id = calls[k].id

IdsPairwiseDistinct ==
    op \in {"extract", "extract2"}
    => \A j, k \in 1..Len(extracted) :
          j < k => extracted[j].id # extracted[k].id

(***************************************************************************)
(* Shapes of tool calls, checked under SpecShape.                          *)
(***************************************************************************)
\* a JavaScript value that is a string; one that is a mapping (a JSON
\* object, not an array)
IsStringValue(v) == TypeOf(v) = "string"
IsMapping(v) == v # Undefined /\ Head(v) = TokLB

\* C22: every record extractToolCalls returns has a string id, a string
\* name and arguments that are a mapping, never a string, a number, a
\* boolean or an array, in the wrapped phase and in the fallback phase.
RecordsConform ==
    op = "extract"
    => \A k \in 1..Len(extracted) :
          /\ IsStringValue(extracted[k].id)
          /\ IsStringValue(extracted[k].name)
          /\ IsMapping(extracted[k].arguments)

\* wrapped spans whose inner text is the object of CallRm with prose
\* before and after it; in "spanTrail" the prose after it holds a "}"
ProsePieces == {"spanProse", "spanTrail"}
InProse(ps) == SelectSeq(ps, LAMBDA p : p \in ProsePieces)

\* C23: in the wrapped phase a span whose inner text is a valid tool-call
\* object surrounded by prose is accepted, also when the prose after the
\* object holds a brace: every such span of a text yields the record of
\* its object, in order.
ObjectInProseAccepted ==
    (/\ tver = "current" /\ op = "extract"
     /\ \A k \in 1..Len(src) : src[k] \in {"prose", "ws"} \cup ProsePieces)
    => /\ Len(extracted) = Len(InProse(src))
       /\ \A k \in 1..Len(extracted) :
             /\ extracted[k].name = <<"\"rm\"">>
             /\ extracted[k].arguments = <<TokLB, TokKV, TokRB>>

\* a raw tool-call object whose arguments hold a nested object:
\* {"id":"c1","name":"ls","arguments":{"o":{}}}
NestedPieces == {"callNested"}

\* the text is prose around one raw tool-call object, the piece p
OnlyCall(ps, p) ==
    /\ \A k \in 1..Len(ps) : ps[k] \in {"prose", "ws", p}
    /\ Cardinality({k \in 1..Len(ps) : ps[k] = p}) = 1

\* C24: the fallback phase tolerates one level of nested braces: a raw
\* tool-call object whose arguments hold no nested object is extracted;
\* for a text whose only tool call is a raw object whose arguments hold a
\* nested object, extractToolCalls returns no record, removeToolCallTags
\* leaves the object in the text, and detectToolCall returns true.
OneLevelOfNesting ==
    tver = "current"
    => /\ (OnlyCall(src, "callLs") /\ op = "extract")
            => extracted = <<RawRecord>>
       /\ \A p \in NestedPieces :
             OnlyCall(src, p)
             => /\ op = "extract" => extracted = <<>>
                /\ op = "strip"
                      => \E i \in 1..Len(stripped) :
                            OccursAt(stripped, PieceText(p), i)
                /\ op = "detect" => detected

\* C24 witness: the only tool call of the text is the raw object with a
\* nested object in its arguments; detectToolCall is true of the text and
\* no record was extracted
OneLevelOfNestingWitness ==
    /\ tver = "current" /\ op = "extract"
    /\ OnlyCall(src, "callNested") /\ Len(src) = 3
    /\ detectToolCall(text)
    /\ extracted = <<>>
    /\ removeToolCallTags(text) = Trim(text)

\* C29: detectToolCall and extractToolCalls agree in the direction the
\* loop relies on: for every text from which extractToolCalls returns at
\* least one record, detectToolCall returns true.
ExtractedImpliesDetected ==
    (op = "extract" /\ extracted # <<>>) => detectToolCallOf(tver, text)

(***************************************************************************)
(* The tool-result envelope, checked under SpecFormat.                     *)
(***************************************************************************)
\* two argument triples that differ as strings
Differ(a, b) ==
    \/ a.toolName # b.toolName
    \/ a.isError # b.isError
    \/ TextOf(a.result) # TextOf(b.result)

\* C28: formatToolResult returns the same envelope on every call; the
\* envelope holds the tool name in its name attribute and the result text
\* verbatim as its body, and carries the error attribute exactly when
\* isError is true, so that different (toolName, isError, resultText)
\* triples give different envelopes; and hasToolResult is true of it.
EnvelopeCarriesTriple ==
    \A k \in 1..Len(fmtOut) :
       LET a == fmtIn[1]
           e == fmtOut[k]
       IN /\ e = fmtOut[1]
          /\ TextOf(e) = "<tool_result name=\"" \o a.toolName \o "\""
                         \o (IF a.isError THEN " error=\"true\"" ELSE "")
                         \o ">\n" \o TextOf(a.result) \o "\n</tool_result>"
          /\ hasToolResult(e)
          /\ \A b \in FmtInputs :
                Differ(a, b)
                => TextOf(formatToolResult(b.toolName, b.result, b.isError))
                      # TextOf(e)

(***************************************************************************)
(* The status of an execution record, checked under SpecCb.  records holds *)
(* every ToolExecutionData object the invocation has created, those of     *)
(* lines 313-317 and those of lines 377-382; the accumulator holds the     *)
(* objects appended at lines 351 and 383.                                  *)
(***************************************************************************)
TerminalStatus == {"success", "error"}

\* C26: every execution record is created with status 'executing' before the
\* tool runs, and moves exactly once to a terminal status: 'success' when
\* the execution returned a result with isError false, 'error' when it
\* returned one with isError true or raised.  A terminal status never
\* changes, and every record of the accumulator and of the returned trace
\* has a terminal status.
StatusMovesOnce ==
    [][/\ Len(records') >= Len(records)
       /\ \A k \in 1..Len(records') :
             IF k > Len(records)
             THEN records'[k].status = "executing"
             ELSE records'[k].status # records[k].status
                  => /\ records[k].status = "executing"
                     /\ records'[k].status \in TerminalStatus
       /\ \A k \in 1..Len(records') :
             LET e == execLog'[records'[k].execution]
             IN e.outcome \in TerminalStatus => records'[k].status = e.outcome
       /\ IsPrefix(allToolExecutions, allToolExecutions')
       /\ \A k \in 1..Len(allToolExecutions') :
             allToolExecutions'[k].status \in TerminalStatus
       /\ returned' # <<>>
          => \A k \in 1..Len(returned'[1].toolExecutions) :
                returned'[1].toolExecutions[k].status \in TerminalStatus
      ]_vars

(***************************************************************************)
(* The loop and its callbacks, checked under SpecCb.                       *)
(***************************************************************************)
\* the kinds of the events of one call, in the order they happened
KindsOf(it, c) ==
    LET mine == SelectSeq(events, LAMBDA e : e.iteration = it /\ e.call = c)
    IN [k \in 1..Len(mine) |-> mine[k].kind]

\* the positions of the events of a kind that belong to a call
Positions(kind, it, c) ==
    {i \in 1..Len(events) : /\ events[i].kind = kind
                            /\ events[i].iteration = it
                            /\ events[i].call = c}

CallsSeen == {<<events[i].iteration, events[i].call>> : i \in 1..Len(events)}
             \ {<<it, 0>> : it \in 0..MAX_TOOL_ITERATIONS}

\* C25: the steps of one call happen in this order: the record is created
\* and the pre-execution callback invoked, the executor called, the record
\* moved to its terminal status, the post-execution callback invoked, the
\* record appended to the accumulator, the tool-result message appended;
\* the post-execution callback comes before the record is appended.
StepsInOrder ==
    \A ic \in CallsSeen :
       Positions("failed", ic[1], ic[2]) = {}
       => IsPrefix(KindsOf(ic[1], ic[2]),
                   <<"pre", "invoke", "returned", "post", "push", "message">>)

\* C30: in every run, also when an onToolExecution callback raises, an
\* iteration whose calls are done has appended exactly one record per call
\* to the accumulator and has called the executor exactly once per call;
\* and a call whose execution returned with isError false is never recorded
\* or reported to the model as an error.
OneRecordPerCall ==
    /\ pc = "append"
       => \A c \in 1..Len(toolCalls) :
             /\ Cardinality(Positions("push", iterations, c)) = 1
             /\ Cardinality(Positions("invoke", iterations, c)) = 1
    /\ \A i \in 1..Len(events) :
          (events[i].kind = "returned" /\ events[i].status = "success")
          => \A j \in 1..Len(events) :
                (/\ events[j].kind \in {"push", "message"}
                 /\ events[j].iteration = events[i].iteration
                 /\ events[j].call = events[i].call)
                => events[j].status = "success"

ToolCallbacks == {"pre", "post", "failed"}

\* C27: the callbacks of the two phases never interleave: every onChunk of
\* request k fires after all onToolExecution callbacks of iteration k-1 and
\* before any of iteration k, given that the backend fires onChunk only
\* while its call is pending; and an onChunk changes nothing of the loop:
\* not the calls that are executed, not when the loop ends.  (The log only
\* grows, so each step is checked for the events it adds against all the
\* events before them.)
PhasesNeverInterleave ==
    [][/\ \A j \in (Len(events) + 1)..Len(events') : \A i \in 1..(j - 1) :
             /\ (events'[i].kind \in ToolCallbacks /\ events'[j].kind = "chunk")
                => events'[i].iteration < events'[j].iteration
             /\ (events'[i].kind = "chunk" /\ events'[j].kind \in ToolCallbacks)
                => events'[i].iteration <= events'[j].iteration
       /\ Len(Chunks') > Len(Chunks) => UNCHANGED loopVars
      ]_vars

\* C27 witness: a chunk of the second request, between the callbacks of the
\* first iteration and those of the second
PhasesNeverInterleaveWitness ==
    \E i, j, k \in 1..Len(events) :
       /\ i < j /\ j < k
       /\ events[i].kind = "post" /\ events[i].iteration = 1
       /\ events[j].kind = "chunk" /\ events[j].iteration = 2
       /\ events[k].kind = "pre" /\ events[k].iteration = 2

(***************************************************************************)
(* MCPManager and the service it drives, checked under SpecMgr and         *)
(* SpecPath.                                                               *)
(***************************************************************************)
\* the lifecycle operations of the service that completed, in order
CompletedOps == SelectSeq(lifecycle, LAMBDA e : e.phase = "completed")

\* the elements of a sequence
Range(s) == {s[i] : i \in 1..Len(s)}

\* every call made so far has returned
Quiescent == \A c \in 1..Len(invocations) : invocations[c].at = "done"

\* C31: in every reachable state where isReadyForDirectory(d) is true, the
\* last lifecycle operation of the service that completed is a successful
\* initialize whose allowed directories contain d; so after a
\* re-initialization for a new directory that shut the service down and
\* then failed, isReadyForDirectory is false for the old directory.
ReadyOnlyWhenServiceIs ==
    \A d \in paths \cup {currentDirectory} :
       isReadyForDirectory(d)
       => /\ CompletedOps # <<>>
          /\ LET last == CompletedOps[Len(CompletedOps)]
             IN /\ last.op = "initialize" /\ last.ok
                /\ d \in Range(invocations[last.call].allowedDirectories)


\* C32: for every path p, after ensureInitialized(p) returns true,
\* isReadyForDirectory(p) returns true for the same argument p, also for
\* paths with a trailing separator, a leading './' or '..' components.
ReadyForTheArgument ==
    [][\A c \in 1..Len(invocations') :
          (/\ invocations'[c].kind = "ensure"
           /\ invocations'[c].result = <<TRUE>>
           /\ c <= Len(invocations) => invocations[c].result = <<>>)
          => \A q \in paths :
                q = invocations'[c].currentPath => isReadyForDirectory(q)'
      ]_vars

\* the positions of the entries of lifecycle that say the operation of
\* call c was invoked
InvokedAt(which, c) ==
    {i \in 1..Len(lifecycle) : lifecycle[i] = Invoked(which, c)}

\* C34: ensureInitialized(p) called while the manager is initialized for the
\* normalized form of p returns true and changes nothing: it invokes neither
\* shutdown nor initialize on the service, and isInitialized,
\* currentDirectory and parentDirectories keep their values; and when a
\* re-initialization is needed and the manager is initialized, the service
\* shutdown is invoked before the service initialize.
NoOpWhenInitialized ==
    [][(/\ Len(invocations') > Len(invocations)
        /\ invocations'[Len(invocations')].kind = "ensure")
       => LET c == Len(invocations')
              call == invocations'[c]
          IN /\ (isInitialized /\ currentDirectory = normalizePath(call.currentPath))
                => /\ call.at = "done" /\ call.result = <<TRUE>>
                   /\ UNCHANGED <<isInitialized, currentDirectory,
                                  parentDirectories, initialized, config,
                                  lifecycle>>
             /\ (isInitialized /\ currentDirectory # normalizePath(call.currentPath))
                => /\ lifecycle' = Append(lifecycle, Invoked("shutdown", c))
                   /\ call.result = <<>>
      ]_vars
    /\ [][\A j \in (Len(lifecycle) + 1)..Len(lifecycle') :
             (lifecycle'[j].op = "shutdown" /\ lifecycle'[j].phase = "invoked")
             => InvokedAt("initialize", lifecycle'[j].call) = {}
         ]_vars

\* C34 witness: a call for the directory the manager is initialized for has
\* returned true at once, and a call for another directory has invoked
\* shutdown and then initialize
NoOpWhenInitializedWitness ==
    /\ Len(invocations) = 3
    /\ invocations[2].currentPath # invocations[2].normalizedPath
    /\ invocations[2].at = "done" /\ invocations[2].result = <<TRUE>>
    /\ InvokedAt("shutdown", 2) = {} /\ InvokedAt("initialize", 2) = {}
    /\ InvokedAt("shutdown", 3) # {} /\ InvokedAt("initialize", 3) # {}

\* the components of a path
Components(path) ==
    SelectSeq(Split(path, SeparatorOf(path)), LAMBDA q : q # <<>>)

\* a path with its last component removed and the same root
RootedParent(path) ==
    LET separator == SeparatorOf(path)
        parts == Components(path)
    IN (IF path[1] = separator THEN <<separator>> ELSE <<>>)
       \o Join(Slice(parts, 1, Len(parts) - 1), separator)

\* C35: the allowed-directories list that ensureInitialized passes to the
\* service is the normalized current directory followed by its parent
\* directory when it has one, where the parent is the current directory
\* with its last component removed and the same root (/a/b has parent /a);
\* the list holds no path that is not the current directory or its parent.
AllowedIsCurrentAndParent ==
    \A c \in 1..Len(invocations) :
       InvokedAt("initialize", c) # {}
       => LET current == normalizePath(invocations[c].currentPath)
              allowed == invocations[c].allowedDirectories
          IN /\ allowed[1] = current
             /\ Len(Components(current)) >= 2
                => allowed = <<current, RootedParent(current)>>
             /\ Len(Components(current)) <= 1
                => \A k \in 2..Len(allowed) : allowed[k] = SubSeq(current, 1, 1)


\* the initialize operations of the service that succeeded, in the order
\* their backend calls completed
Succeeded ==
    SelectSeq(lifecycle, LAMBDA e : e = Completed("initialize", e.call, TRUE))

\* two calls for different directories, the second made while the first
\* had not returned
Overlapped(c1, c2) ==
    /\ c1 \in invocations[c2].during
    /\ invocations[c1].normalizedPath # invocations[c2].normalizedPath

\* C33: when two ensureInitialized calls for different directories overlap,
\* then once the calls have completed getCurrentDirectory is the directory
\* the service was most recently successfully initialized with, under every
\* interleaving of their awaits and every completion order of the backend
\* calls.
OverlapKeepsDirectory ==
    (/\ Quiescent
     /\ \A c \in 1..Len(invocations) : invocations[c].kind = "ensure"
     /\ \E c1, c2 \in 1..Len(invocations) : Overlapped(c1, c2)
     /\ Succeeded # <<>>)
    => getCurrentDirectory
          = invocations[Succeeded[Len(Succeeded)].call].normalizedPath
====
